---- MODULE Spec2Model ----
(***************************************************************************)
(* TR-ZERO agent-based carbon-market simulation                            *)
(* (src/ajan_tabanli_simulasyon.py): the market operator, the facilities   *)
(* (plain and exporter), the MRV agent, the households, the project        *)
(* developers and the yearly scheduler with its data collector.            *)
(*                                                                         *)
(* Fixed-point representation of the program's floating-point quantities:  *)
(*   emission, cap, allowances : kt CO2 (1 Mt = 1000)                       *)
(*   prices                    : whole $/t (fractions truncated)            *)
(*   costs, penalties          : k$ (kt x $/t), 1 M$ = 1000                 *)
(*   NPV                       : $                                          *)
(*   rates and potentials      : percent                                    *)
(*   competitiveness index     : per mille                                  *)
(*   household consumption     : kWh; household emission: kg (1 t = 1000)   *)
(*   developer capital         : k$; capacity: MW                           *)
(***************************************************************************)
EXTENDS Integers, Sequences, FiniteSets, TLC

(***************************************************************************)
(* Bounds of the model                                                     *)
(***************************************************************************)
\* audits the MRV agent draws over one run
MaxDenetim == 1

(***************************************************************************)
(* Program constants                                                       *)
(***************************************************************************)
PILOT_BASLANGIC == 2026
TAM_UYGULAMA == 2028
TABAN_FIYAT == 20
TAVAN_FIYAT == 150
CEZA_MIKTARI == 100
BASLANGIC_YIL == 2025
YIL_SAYISI == 11
EKONOMIK_OMUR == 10
\* 1 + r, r = 0.08, in percent
ISKONTO_YUZDE == 108
\* en_iyi_npv = -9999
NPV_BASLANGIC == -9999
\* 0.6 * 1000 in the subsidy threshold
TESVIK_CARPANI == 600
PILOT_ORAN == 100
TAM_ORAN == 70
GENEL_SURE == 3
GENEL_POTANSIYEL == 20
\* maliyet_esik = 50 M$, in k$
MALIYET_ESIK == 50000
REKABET_TABAN == 300
REKABET_TAM == 1000
\* EMISYON_FAKTORU_TR = 0.442 t/MWh, in kg/MWh
EMISYON_FAKTORU_TR == 442
\* the 100 $/t reference of the household price ratio
REFERANS_FIYAT == 100
\* max(0.5, ...) of the household price effect, in 1/10000
ETKI_TABAN == 5000
ETKI_TAM == 10000
\* enerji_fiyati = 80 $/MWh
ENERJI_FIYATI == 80
\* hours of a year in yillik_uretim
YIL_SAATI == 8760

Max(a, b) == IF a >= b THEN a ELSE b
Min(a, b) == IF a <= b THEN a ELSE b
Abs(a) == IF a < 0 THEN -a ELSE a

(***************************************************************************)
(* Sector profiles.  mac_onlemler is a Python dict; its iteration order is *)
(* the insertion order, kept here as a sequence.                           *)
(***************************************************************************)
SEKTOR_PROFILLERI ==
  [ Enerji |->
      [ baz_emisyon |-> 1000, skdm_kapsam |-> FALSE, maliyet_limit |-> 90,
        yatirim_bedeli |-> 200, duyarlilik |-> "Vergi",
        mac_onlemler |->
          << [ad |-> "enerji_verimliligi", mac |-> -15, potansiyel |-> 8, sure |-> 2],
             [ad |-> "yakit_degisimi", mac |-> 35, potansiyel |-> 20, sure |-> 3],
             [ad |-> "yenilenebilir", mac |-> 50, potansiyel |-> 35, sure |-> 5] >> ],
    Sanayi |->
      [ baz_emisyon |-> 750, skdm_kapsam |-> TRUE, maliyet_limit |-> 110,
        yatirim_bedeli |-> 250, duyarlilik |-> "Vergi",
        mac_onlemler |->
          << [ad |-> "enerji_verimliligi", mac |-> -5, potansiyel |-> 10, sure |-> 2],
             [ad |-> "proses_iyilestirme", mac |-> 25, potansiyel |-> 15, sure |-> 3],
             [ad |-> "teknoloji_degisimi", mac |-> 60, potansiyel |-> 30, sure |-> 6] >> ],
    Tarim |->
      [ baz_emisyon |-> 300, skdm_kapsam |-> FALSE, maliyet_limit |-> 999,
        yatirim_bedeli |-> 300, duyarlilik |-> "Tesvik",
        mac_onlemler |->
          << [ad |-> "gubre_optimizasyonu", mac |-> 10, potansiyel |-> 15, sure |-> 1],
             [ad |-> "metan_yakalama", mac |-> 40, potansiyel |-> 25, sure |-> 5] >> ] ]

(***************************************************************************)
(* A second catalog under the same three sector names: the catalog is      *)
(* input data of the simulation.  Its Enerji sector has no negative-MAC    *)
(* measure, two measures of equal cost and potential, and a low shutdown   *)
(* threshold; its Sanayi sector has a one-year first measure; its Tarim    *)
(* sector has a low shutdown threshold and a low investment cost.          *)
(***************************************************************************)
DAR_PROFILLER ==
  [ Enerji |->
      [ baz_emisyon |-> 1000, skdm_kapsam |-> FALSE, maliyet_limit |-> 5,
        yatirim_bedeli |-> 200, duyarlilik |-> "Vergi",
        mac_onlemler |->
          << [ad |-> "yakit_degisimi", mac |-> 30, potansiyel |-> 20, sure |-> 3],
             [ad |-> "atik_isi", mac |-> 30, potansiyel |-> 20, sure |-> 2],
             [ad |-> "yenilenebilir", mac |-> 70, potansiyel |-> 35, sure |-> 5] >> ],
    Sanayi |->
      [ baz_emisyon |-> 750, skdm_kapsam |-> TRUE, maliyet_limit |-> 110,
        yatirim_bedeli |-> 250, duyarlilik |-> "Vergi",
        mac_onlemler |->
          << [ad |-> "enerji_verimliligi", mac |-> -5, potansiyel |-> 10, sure |-> 1],
             [ad |-> "proses_iyilestirme", mac |-> 25, potansiyel |-> 15, sure |-> 3],
             [ad |-> "teknoloji_degisimi", mac |-> 60, potansiyel |-> 30, sure |-> 6] >> ],
    Tarim |->
      [ baz_emisyon |-> 300, skdm_kapsam |-> FALSE, maliyet_limit |-> 1,
        yatirim_bedeli |-> 80, duyarlilik |-> "Tesvik",
        mac_onlemler |->
          << [ad |-> "gubre_optimizasyonu", mac |-> 10, potansiyel |-> 15, sure |-> 1],
             [ad |-> "metan_yakalama", mac |-> 40, potansiyel |-> 25, sure |-> 5] >> ] ]

\* the catalogs a run can be given, by name
Kataloglar == {"SEKTOR_PROFILLERI", "DAR_PROFILLER"}
Katalog(ad) == IF ad = "SEKTOR_PROFILLERI" THEN SEKTOR_PROFILLERI ELSE DAR_PROFILLER


(***************************************************************************)
(* Scenario parameters of TurkiyeETSModel.__init__, after the scenarios of *)
(* senaryo_karsilastirmasi.  Siki_ETS has its cap of 60 Mt for 110         *)
(* facilities scaled to the two facilities of the model (0.55 Mt each), so *)
(* that total emission can exceed the cap as it does in the shipped run.   *)
(***************************************************************************)
Senaryolar ==
  { [ad |-> "BAU", baslangic_cap |-> 9999000, cap_azalma_orani |-> 0,
     tesvik_miktari |-> 0, ab_skdm_fiyat |-> 0],
    [ad |-> "Siki_ETS", baslangic_cap |-> 1100, cap_azalma_orani |-> 4,
     tesvik_miktari |-> 50000, ab_skdm_fiyat |-> 90] }

\* two more parameter sets of TurkiyeETSModel.__init__: a cap far below the
\* emission (the price reaches the ceiling), and a reduction rate of 1 (the
\* cap is 0 from the first scheme year on)
EkSenaryolar ==
  { [ad |-> "Dar_Cap", baslangic_cap |-> 300, cap_azalma_orani |-> 4,
     tesvik_miktari |-> 0, ab_skdm_fiyat |-> 0],
    [ad |-> "Sifir_Cap", baslangic_cap |-> 1100, cap_azalma_orani |-> 100,
     tesvik_miktari |-> 0, ab_skdm_fiyat |-> 0] }

\* a parameter set whose domestic price rises above the border price
SkdmSenaryo ==
  [ad |-> "Dar_Skdm", baslangic_cap |-> 300, cap_azalma_orani |-> 4,
   tesvik_miktari |-> 0, ab_skdm_fiyat |-> 60]

\* a parameter set with the largest incentive the dashboard offers
\* (number_input "Yenilenebilir Tesvigi", max_value 200000), above the
\* threshold of the shipped Tarim profile (300 * 0.6 * 1000)
TesvikSenaryo ==
  [ad |-> "Yuksek_Tesvik", baslangic_cap |-> 1100, cap_azalma_orani |-> 4,
   tesvik_miktari |-> 200000, ab_skdm_fiyat |-> 90]

\* np.random.uniform(0.7, 1.3) of the emission draw, in percent
Carpanlar == {100}
\* np.random.uniform(0.05, 0.15) of the under-reported share, in percent
EksikOranlar == {10}

\* model.agents: the operator, the MRV agent and the facilities
OpAjan == <<"op", 0>>
MrvAjan == <<"mrv", 0>>
TesisAjan(i) == <<"tesis", i>>
Ajanlar(n) == {OpAjan, MrvAjan} \cup {TesisAjan(i) : i \in 1..n}
HaneAjan(j) == <<"hane", j>>
GelistiriciAjan(j) == <<"gelistirici", j>>
\* the whole roster: nt facilities, nh households, ng project developers
TumAjanlar(nt, nh, ng) ==
  Ajanlar(nt) \cup {HaneAjan(j) : j \in 1..nh} \cup {GelistiriciAjan(j) : j \in 1..ng}

\* n_enerji, n_sanayi, n_tarim, n_ihracatci: the facility population
\* (the shipped defaults, 40/30/30/10, scaled down)
Nufuslar ==
  { [enerji |-> 1, sanayi |-> 0, tarim |-> 0, ihracatci |-> 1,
     hanehalki |-> 0, yatirimci |-> 0],
    [enerji |-> 0, sanayi |-> 1, tarim |-> 1, ihracatci |-> 0,
     hanehalki |-> 0, yatirimci |-> 0] }

\* a population with a household and a project developer
KarmaNufus ==
  [enerji |-> 1, sanayi |-> 0, tarim |-> 0, ihracatci |-> 0,
   hanehalki |-> 1, yatirimci |-> 1]

\* a population of one exporter
IhracatciNufus ==
  [enerji |-> 0, sanayi |-> 0, tarim |-> 0, ihracatci |-> 1,
   hanehalki |-> 0, yatirimci |-> 0]

\* a population of two project developers
GelistiriciNufus ==
  [enerji |-> 0, sanayi |-> 0, tarim |-> 0, ihracatci |-> 0,
   hanehalki |-> 0, yatirimci |-> 2]

\* populations of one taxed facility, of one subsidy-class facility, and of
\* a household with a project developer
TekSanayiNufus ==
  [enerji |-> 0, sanayi |-> 1, tarim |-> 0, ihracatci |-> 0,
   hanehalki |-> 0, yatirimci |-> 0]
TekTarimNufus ==
  [enerji |-> 0, sanayi |-> 0, tarim |-> 1, ihracatci |-> 0,
   hanehalki |-> 0, yatirimci |-> 0]
HaneNufus ==
  [enerji |-> 0, sanayi |-> 0, tarim |-> 0, ihracatci |-> 0,
   hanehalki |-> 1, yatirimci |-> 1]

\* the runs of the model: every scenario of senaryo_karsilastirmasi with
\* every catalog and facility population, the mixed population under
\* four parameter sets, the exporter under a low border price, the
\* two developers, and one Tarim facility under the largest incentive
Kosular ==
  [senaryo : Senaryolar, katalog : Kataloglar, nufus : Nufuslar]
    \cup { [senaryo |-> s, katalog |-> "SEKTOR_PROFILLERI", nufus |-> KarmaNufus] :
             s \in {t \in Senaryolar : t.ad = "Siki_ETS"} \cup EkSenaryolar }
    \cup { [senaryo |-> s, katalog |-> "DAR_PROFILLER", nufus |-> KarmaNufus] :
             s \in {t \in Senaryolar : t.ad = "BAU"} }
    \cup { [senaryo |-> SkdmSenaryo, katalog |-> "SEKTOR_PROFILLERI",
            nufus |-> IhracatciNufus] }
    \cup { [senaryo |-> s, katalog |-> "SEKTOR_PROFILLERI",
            nufus |-> GelistiriciNufus] :
             s \in {t \in Senaryolar : t.ad = "BAU"} }
    \cup { [senaryo |-> TesvikSenaryo, katalog |-> "SEKTOR_PROFILLERI",
            nufus |-> TekTarimNufus] }

\* the runs followed to their end under fair scheduling
AdilKosular ==
  { [senaryo |-> s, katalog |-> "SEKTOR_PROFILLERI", nufus |-> n] :
      s \in {t \in Senaryolar : t.ad = "Siki_ETS"},
      n \in {TekSanayiNufus, TekTarimNufus, HaneNufus} }
    \cup { [senaryo |-> SkdmSenaryo, katalog |-> "SEKTOR_PROFILLERI",
            nufus |-> IhracatciNufus] }

TesisSayisi(n) == n.enerji + n.sanayi + n.tarim + n.ihracatci

\* the facility numbers of all runs
TesisNolari == UNION {1..TesisSayisi(ko.nufus) : ko \in Kosular \cup AdilKosular}

\* creation order of TurkiyeETSModel.__init__: Enerji, Sanayi, Tarim, exporters
SektorOf(n, i) ==
  IF i <= n.enerji THEN "Enerji"
  ELSE IF i <= n.enerji + n.sanayi THEN "Sanayi"
  ELSE IF i <= n.enerji + n.sanayi + n.tarim THEN "Tarim"
  ELSE "Sanayi"

AjanTipiOf(n, i) ==
  IF i <= n.enerji + n.sanayi + n.tarim THEN "Tesis" ELSE "IhracatciTesis"

VARIABLES
  yil,                \* model.yil
  karbon_fiyati,      \* model.karbon_fiyati
  ets_aktif,          \* model.ets_aktif
  acik_artirma_aktif, \* model.acik_artirma_aktif
  param,              \* scenario parameters, catalog and population of the run
  op,                 \* the PiyasaOperatoru's fields
  mrv,                \* the MRVAjani's fields
  tesis,              \* the facilities' fields, by facility
  hane,               \* the households' fields, by household
  gelistirici,        \* the project developers' fields, by developer
  yenilenebilir_kapasite, \* model.yenilenebilir_kapasite
  kayit,              \* model.datacollector: rows collected, Toplam_Emisyon
                      \* of the first row and of the last row
  bekleyen,           \* agents shuffle_do has still to step in this tick
  pc                  \* position in TurkiyeETSModel.step

vars == <<yil, karbon_fiyati, ets_aktif, acik_artirma_aktif, param, op, mrv,
          tesis, hane, gelistirici, yenilenebilir_kapasite, kayit, bekleyen, pc>>

Tesisler == DOMAIN tesis
Haneler == DOMAIN hane
Gelistiriciler == DOMAIN gelistirici

Profil(i) == Katalog(param.katalog)[tesis[i].sektor]

(***************************************************************************)
(* EndustriyelTesis.__init__ / IhracatciAjani.__init__                     *)
(* g_yatirim and g_adim are history fields: the number of investments the  *)
(* facility has started, and the number of steps it has begun in a status  *)
(* other than Aktif.                                                       *)
(***************************************************************************)
YeniTesis(katalog, sektor, tip, carpan, ihr) ==
  [ ajan_tipi |-> tip,
    sektor |-> sektor,
    emisyon |-> (katalog[sektor].baz_emisyon * carpan) \div 100,
    baslangic_emisyon |-> (katalog[sektor].baz_emisyon * carpan) \div 100,
    ihracatci |-> ihr,
    durum |-> "Aktif",
    yatirim_durumu |-> "None",
    kalan_yatirim_suresi |-> 0,
    emisyon_azalma_potansiyeli |-> 0,
    ucretsiz_tahsisat |-> 0,
    izin_bankasi |-> 0,
    net_emisyon |-> 0,
    ceza_durumu |-> FALSE,
    ceza_miktari |-> 0,
    yatirim_onlemi_kaydet |-> 0,
    cbam_maliyeti |-> 0,
    rekabet_gucu_indeksi |-> REKABET_TAM,
    g_yatirim |-> 0,
    g_adim |-> 0 ]


(***************************************************************************)
(* PiyasaOperatoru                                                         *)
(***************************************************************************)
RECURSIVE EmisyonTopla(_, _)
EmisyonTopla(ts, k) ==
  IF k = 0 THEN 0
  ELSE EmisyonTopla(ts, k - 1)
       + (IF ts[k].durum # "Kapali" THEN ts[k].emisyon ELSE 0)

RECURSIVE BaslangicEmisyonTopla(_, _)
BaslangicEmisyonTopla(ts, k) ==
  IF k = 0 THEN 0
  ELSE BaslangicEmisyonTopla(ts, k - 1)
       + (IF ts[k].durum # "Kapali" THEN ts[k].baslangic_emisyon ELSE 0)

\* mutant: the operator adds up the initial emissions
ToplamEmisyonHesapla_Baslangic(ts) == BaslangicEmisyonTopla(ts, Len(ts))

\* _toplam_emisyon_hesapla: emission of the facilities that are not Kapali
ToplamEmisyonHesapla(ts) == EmisyonTopla(ts, Len(ts))

\* self.cap *= (1 - self.azalma_orani)
CapAzalt(cap, oran) == (cap * (100 - oran)) \div 100

\* mutant: the cap shrinks in every year, scheme active or not
YeniCap_YilsizAzalt(cap, oran, yl) == CapAzalt(cap, oran)

\* the cap after the first statement of PiyasaOperatoru.step
YeniCap(cap, oran, yl) ==
  IF yl >= PILOT_BASLANGIC THEN CapAzalt(cap, oran) ELSE cap

\* TABAN_FIYAT * (arz_talep_orani ** 2), taken when emission exceeds the cap
KareFiyat(emisyon, cap) ==
  (TABAN_FIYAT * emisyon * emisyon) \div (cap * cap)

\* TABAN_FIYAT * (arz_talep_orani ** 0.5): the largest whole p with
\* p^2 * cap <= TABAN_FIYAT^2 * emisyon
KokFiyat(emisyon, cap) ==
  CHOOSE p \in 0..TABAN_FIYAT :
    /\ (p = 0 \/ cap <= (TABAN_FIYAT * TABAN_FIYAT * emisyon) \div (p * p))
    /\ \A q \in (p + 1)..TABAN_FIYAT :
         cap > (TABAN_FIYAT * TABAN_FIYAT * emisyon) \div (q * q)

\* mutant: only the ceiling is applied
FiyatSinirla_TabanYok(fiyat) == Min(TAVAN_FIYAT, fiyat)

\* max(TABAN_FIYAT, min(TAVAN_FIYAT, fiyat))
FiyatSinirla(fiyat) == Max(TABAN_FIYAT, Min(TAVAN_FIYAT, fiyat))

\* mutant: the cap is not tested before the division
FiyatKosulu_CapYok(yl, cap, emisyon) == yl >= PILOT_BASLANGIC /\ emisyon > 0

\* the guard of the price computation
FiyatKosulu(yl, cap, emisyon) == yl >= PILOT_BASLANGIC /\ cap > 0 /\ emisyon > 0

\* toplam_emisyon / self.cap raises ZeroDivisionError
BolmeHatasi(yl, cap, emisyon) == FiyatKosulu(yl, cap, emisyon) /\ cap = 0

\* the price PiyasaOperatoru.step sets from the reduced cap and the total emission
FiyatBelirle(yl, cap, emisyon) ==
  IF FiyatKosulu(yl, cap, emisyon)
  THEN FiyatSinirla(IF emisyon > cap THEN KareFiyat(emisyon, cap)
                    ELSE KokFiyat(emisyon, cap))
  ELSE 0

\* mutant: revenue accrues from the pilot year on
AcikArtirmaGeliri_PilottanBeri(yl, cap, fiyat) ==
  IF yl >= PILOT_BASLANGIC /\ fiyat > 0 THEN ((cap * 3) \div 10) * fiyat ELSE 0

\* auction revenue of a step, k$: cap * 0.3 * price
AcikArtirmaGeliri(yl, cap, fiyat) ==
  IF yl >= TAM_UYGULAMA /\ fiyat > 0 THEN ((cap * 3) \div 10) * fiyat ELSE 0

(***************************************************************************)
(* EndustriyelTesis                                                        *)
(***************************************************************************)
\* step, part 1: the effective carbon price
EfektifFiyat(t, profil, kf, skdm) ==
  IF t.ihracatci /\ profil.skdm_kapsam THEN Max(kf, skdm) ELSE kf

\* mutant: the pilot years get the fraction of full implementation
UcretsizOran_PilottaEksik(yl) == TAM_ORAN

\* step, part 2: free allocation and banking
UcretsizOran(yl) == IF yl < TAM_UYGULAMA THEN PILOT_ORAN ELSE TAM_ORAN

\* mutant: the whole deficit is taken from the bank, min() forgotten
Tahsisat_BankaAsimi(t, yl) ==
  IF yl >= PILOT_BASLANGIC
  THEN LET ucretsiz == (t.baslangic_emisyon * UcretsizOran(yl)) \div 100
           fazla_tahsisat == ucretsiz - t.emisyon
       IN IF fazla_tahsisat > 0
          THEN [t EXCEPT !.ucretsiz_tahsisat = ucretsiz,
                         !.izin_bankasi = @ + fazla_tahsisat,
                         !.net_emisyon = 0]
          ELSE [t EXCEPT !.ucretsiz_tahsisat = ucretsiz,
                         !.izin_bankasi = @ - Abs(fazla_tahsisat),
                         !.net_emisyon = 0]
  ELSE [t EXCEPT !.net_emisyon = 0]

\* mutant: a deficit is not drawn from the bank
Tahsisat_BankaKullanmaz(t, yl) ==
  IF yl >= PILOT_BASLANGIC
  THEN LET ucretsiz == (t.baslangic_emisyon * UcretsizOran(yl)) \div 100
           fazla_tahsisat == ucretsiz - t.emisyon
       IN IF fazla_tahsisat > 0
          THEN [t EXCEPT !.ucretsiz_tahsisat = ucretsiz,
                         !.izin_bankasi = @ + fazla_tahsisat,
                         !.net_emisyon = 0]
          ELSE [t EXCEPT !.ucretsiz_tahsisat = ucretsiz,
                         !.net_emisyon = Abs(fazla_tahsisat)]
  ELSE [t EXCEPT !.net_emisyon = 0]

Tahsisat(t, yl) ==
  IF yl >= PILOT_BASLANGIC
  THEN LET ucretsiz == (t.baslangic_emisyon * UcretsizOran(yl)) \div 100
           fazla_tahsisat == ucretsiz - t.emisyon
           eksik == Abs(fazla_tahsisat)
           bankadan_kullan == Min(eksik, t.izin_bankasi)
       IN IF fazla_tahsisat > 0
          THEN [t EXCEPT !.ucretsiz_tahsisat = ucretsiz,
                         !.izin_bankasi = @ + fazla_tahsisat,
                         !.net_emisyon = 0]
          ELSE [t EXCEPT !.ucretsiz_tahsisat = ucretsiz,
                         !.izin_bankasi = @ - bankadan_kullan,
                         !.net_emisyon = eksik - bankadan_kullan]
  ELSE [t EXCEPT !.net_emisyon = 0]

\* 1 / (1 + r)^t in millionths, r = 0.08
RECURSIVE Iskonto(_)
Iskonto(t) == IF t = 0 THEN 1000000 ELSE (Iskonto(t - 1) * 100) \div ISKONTO_YUZDE

RECURSIVE TasarrufTopla(_, _)
TasarrufTopla(yillik_tasarruf, t) ==
  IF t = 0 THEN 0
  ELSE TasarrufTopla(yillik_tasarruf, t - 1) + yillik_tasarruf * (Iskonto(t) \div 1000)

\* mutant: the saving of the first year only is set against the cost
NPV_TekYil(emisyon, onlem, efektif_fiyat) ==
  LET yillik_azaltim == (emisyon * onlem.potansiyel) \div 100
      yillik_tasarruf == yillik_azaltim * efektif_fiyat
      yatirim_maliyeti == IF onlem.mac > 0 THEN yillik_azaltim * onlem.mac ELSE 0
  IN  TasarrufTopla(yillik_tasarruf, 1) - yatirim_maliyeti * 1000

\* _karar_ver, the NPV of one measure, in $
NPV(emisyon, onlem, efektif_fiyat) ==
  LET yillik_azaltim == (emisyon * onlem.potansiyel) \div 100
      yillik_tasarruf == yillik_azaltim * efektif_fiyat
      yatirim_maliyeti == IF onlem.mac > 0 THEN yillik_azaltim * onlem.mac ELSE 0
  IN  TasarrufTopla(yillik_tasarruf, EKONOMIK_OMUR) - yatirim_maliyeti * 1000

\* mutant: measures with a negative MAC are skipped as well
MacAtla_NegatifAtlanir(onlem, efektif_fiyat) ==
  onlem.mac >= efektif_fiyat \/ onlem.mac < 0

\* _karar_ver, the MAC check: the measure is skipped
MacAtla(onlem, efektif_fiyat) == onlem.mac >= efektif_fiyat

\* mutant: >= for >, the last of several equal measures wins
DahaIyi_Esit(npv, en_iyi_npv) == npv >= en_iyi_npv

\* _karar_ver: if npv > en_iyi_npv
DahaIyi(npv, en_iyi_npv) == npv > en_iyi_npv

\* _karar_ver, the loop over mac_onlemler from entry k on; en_iyi is
\* [npv, onlem], onlem the index of the best measure so far (0: None)
RECURSIVE EnIyiOnlem(_, _, _, _, _)
EnIyiOnlem(onlemler, k, emisyon, efektif_fiyat, en_iyi) ==
  IF k > Len(onlemler) THEN en_iyi
  ELSE IF MacAtla(onlemler[k], efektif_fiyat)
       THEN EnIyiOnlem(onlemler, k + 1, emisyon, efektif_fiyat, en_iyi)
       ELSE LET npv == NPV(emisyon, onlemler[k], efektif_fiyat)
            IN  EnIyiOnlem(onlemler, k + 1, emisyon, efektif_fiyat,
                           IF DahaIyi(npv, en_iyi.npv)
                           THEN [npv |-> npv, onlem |-> k] ELSE en_iyi)

\* _karar_ver: the subsidy test of a Tesvik facility
TesvikYeterli(profil, tesvik) == tesvik >= profil.yatirim_bedeli * TESVIK_CARPANI

\* mutant: the threshold taken in $ instead of M$
KapanmaEsigi_BirimHatasi(t, profil, efektif_fiyat) ==
  /\ t.net_emisyon > 0
  /\ t.net_emisyon * efektif_fiyat > profil.maliyet_limit * 1000000

\* _karar_ver: the shutdown test
KapanmaEsigi(t, profil, efektif_fiyat) ==
  /\ t.net_emisyon > 0
  /\ t.net_emisyon * efektif_fiyat > profil.maliyet_limit * 1000

\* mutant: a best NPV of zero is enough to invest
NpvKarari_SifirYeter(t, profil, efektif_fiyat) ==
  LET en_iyi == EnIyiOnlem(profil.mac_onlemler, 1, t.emisyon, efektif_fiyat,
                           [npv |-> NPV_BASLANGIC, onlem |-> 0])
  IN  IF en_iyi.npv >= 0
      THEN [karar |-> "yatirim", onlem |-> en_iyi.onlem]
      ELSE IF KapanmaEsigi(t, profil, efektif_fiyat)
      THEN [karar |-> "kapat", onlem |-> 0]
      ELSE [karar |-> "bekle", onlem |-> 0]

\* _karar_ver, the MAC/NPV evaluation and the shutdown test
NpvKarari(t, profil, efektif_fiyat) ==
  LET en_iyi == EnIyiOnlem(profil.mac_onlemler, 1, t.emisyon, efektif_fiyat,
                           [npv |-> NPV_BASLANGIC, onlem |-> 0])
  IN  IF en_iyi.npv > 0
      THEN [karar |-> "yatirim", onlem |-> en_iyi.onlem]
      ELSE IF KapanmaEsigi(t, profil, efektif_fiyat)
      THEN [karar |-> "kapat", onlem |-> 0]
      ELSE [karar |-> "bekle", onlem |-> 0]

\* mutant: the penalty flag is not consulted
KararVer_CezaYok(t, profil, efektif_fiyat, tesvik) ==
  IF profil.duyarlilik = "Tesvik"
  THEN [karar |-> IF TesvikYeterli(profil, tesvik) THEN "yatirim" ELSE "bekle",
        onlem |-> 0]
  ELSE NpvKarari(t, profil, efektif_fiyat)

\* mutant: the penalty flag is consulted before the sensitivity class
KararVer_CezaOnce(t, profil, efektif_fiyat, tesvik) ==
  IF t.ceza_durumu
  THEN [karar |-> "yatirim", onlem |-> 0]
  ELSE IF profil.duyarlilik = "Tesvik"
  THEN [karar |-> IF TesvikYeterli(profil, tesvik) THEN "yatirim" ELSE "bekle",
        onlem |-> 0]
  ELSE NpvKarari(t, profil, efektif_fiyat)

\* _karar_ver: [karar, onlem], onlem the measure recorded in
\* _yatirim_onlemi_kaydet (0: nothing recorded)
KararVer(t, profil, efektif_fiyat, tesvik) ==
  IF profil.duyarlilik = "Tesvik"
  THEN [karar |-> IF TesvikYeterli(profil, tesvik) THEN "yatirim" ELSE "bekle",
        onlem |-> 0]
  ELSE IF t.ceza_durumu
  THEN [karar |-> "yatirim", onlem |-> 0]
  ELSE NpvKarari(t, profil, efektif_fiyat)

\* mutant: the fallback takes the first measure whatever its MAC
IlkUygunOnlem_FiyataBakmaz(onlemler, fiyat) ==
  IF Len(onlemler) > 0 THEN 1 ELSE 0

\* _yatirim_baslat, fallback: the first measure with mac < karbon_fiyati (0: none)
IlkUygunOnlem(onlemler, fiyat) ==
  IF \E k \in 1..Len(onlemler) : onlemler[k].mac < fiyat
  THEN CHOOSE k \in 1..Len(onlemler) :
         /\ onlemler[k].mac < fiyat
         /\ \A j \in 1..(k - 1) : ~(onlemler[j].mac < fiyat)
  ELSE 0

\* mutant: the investment puts the facility in a durum no reporter counts
YatirimBaslat_BaskaDurum(t, profil, fiyat) ==
  [t EXCEPT !.yatirim_durumu = "genel_iyilestirme",
            !.kalan_yatirim_suresi = GENEL_SURE,
            !.emisyon_azalma_potansiyeli = GENEL_POTANSIYEL,
            !.durum = "Yatirimda",
            !.g_yatirim = @ + 1]

\* mutant: the countdown starts one year short
YatirimBaslat_SureEksik(t, profil, fiyat) ==
  LET k == IF t.yatirim_onlemi_kaydet # 0 THEN t.yatirim_onlemi_kaydet
           ELSE IlkUygunOnlem(profil.mac_onlemler, fiyat)
  IN  IF k # 0
      THEN [t EXCEPT !.yatirim_durumu = profil.mac_onlemler[k].ad,
                     !.kalan_yatirim_suresi = profil.mac_onlemler[k].sure - 1,
                     !.emisyon_azalma_potansiyeli = profil.mac_onlemler[k].potansiyel,
                     !.durum = "Donusum",
                     !.g_yatirim = @ + 1]
      ELSE [t EXCEPT !.yatirim_durumu = "genel_iyilestirme",
                     !.kalan_yatirim_suresi = GENEL_SURE - 1,
                     !.emisyon_azalma_potansiyeli = GENEL_POTANSIYEL,
                     !.durum = "Donusum",
                     !.g_yatirim = @ + 1]

\* _yatirim_baslat
YatirimBaslat(t, profil, fiyat) ==
  LET k == IF t.yatirim_onlemi_kaydet # 0 THEN t.yatirim_onlemi_kaydet
           ELSE IlkUygunOnlem(profil.mac_onlemler, fiyat)
  IN  IF k # 0
      THEN [t EXCEPT !.yatirim_durumu = profil.mac_onlemler[k].ad,
                     !.kalan_yatirim_suresi = profil.mac_onlemler[k].sure,
                     !.emisyon_azalma_potansiyeli = profil.mac_onlemler[k].potansiyel,
                     !.durum = "Donusum",
                     !.g_yatirim = @ + 1]
      ELSE [t EXCEPT !.yatirim_durumu = "genel_iyilestirme",
                     !.kalan_yatirim_suresi = GENEL_SURE,
                     !.emisyon_azalma_potansiyeli = GENEL_POTANSIYEL,
                     !.durum = "Donusum",
                     !.g_yatirim = @ + 1]

\* mutant: the completed investment leaves the penalty flag set
YatirimIlerlet_CezaKalir(t) ==
  IF t.kalan_yatirim_suresi - 1 = 0
  THEN [t EXCEPT !.kalan_yatirim_suresi = 0,
                 !.emisyon = (@ * (100 - t.emisyon_azalma_potansiyeli)) \div 100,
                 !.durum = "Temiz"]
  ELSE [t EXCEPT !.kalan_yatirim_suresi = @ - 1]

\* mutant: the completed investment does not reduce the emission
YatirimIlerlet_AzaltimYok(t) ==
  IF t.kalan_yatirim_suresi - 1 = 0
  THEN [t EXCEPT !.kalan_yatirim_suresi = 0,
                 !.durum = "Temiz",
                 !.ceza_durumu = FALSE]
  ELSE [t EXCEPT !.kalan_yatirim_suresi = @ - 1]

\* mutant: the investment never completes
YatirimIlerlet_Bitmez(t) ==
  IF t.kalan_yatirim_suresi - 1 = 0 THEN t
  ELSE [t EXCEPT !.kalan_yatirim_suresi = @ - 1]

\* mutant: the emission is reduced in every year of the investment
YatirimIlerlet_HerYilAzaltir(t) ==
  IF t.kalan_yatirim_suresi - 1 = 0
  THEN [t EXCEPT !.kalan_yatirim_suresi = 0,
                 !.emisyon = (@ * (100 - t.emisyon_azalma_potansiyeli)) \div 100,
                 !.durum = "Temiz",
                 !.ceza_durumu = FALSE]
  ELSE [t EXCEPT !.kalan_yatirim_suresi = @ - 1,
                 !.emisyon = (@ * (100 - t.emisyon_azalma_potansiyeli)) \div 100]

\* step, part 3: the running investment
YatirimIlerlet(t) ==
  IF t.kalan_yatirim_suresi - 1 = 0
  THEN [t EXCEPT !.kalan_yatirim_suresi = 0,
                 !.emisyon = (@ * (100 - t.emisyon_azalma_potansiyeli)) \div 100,
                 !.durum = "Temiz",
                 !.ceza_durumu = FALSE]
  ELSE [t EXCEPT !.kalan_yatirim_suresi = @ - 1]

\* mutant: closing does not zero the emission
KararUygula_EmisyonKalir(t, profil, efektif_fiyat, tesvik) ==
  LET kv == KararVer(t, profil, efektif_fiyat, tesvik)
      t1 == IF kv.onlem # 0 THEN [t EXCEPT !.yatirim_onlemi_kaydet = kv.onlem] ELSE t
  IN  IF kv.karar = "yatirim" THEN YatirimBaslat(t1, profil, efektif_fiyat)
      ELSE IF kv.karar = "kapat" THEN [t1 EXCEPT !.durum = "Kapali"]
      ELSE t1

\* step, part 4: the decision of an Aktif facility
KararUygula(t, profil, efektif_fiyat, tesvik) ==
  LET kv == KararVer(t, profil, efektif_fiyat, tesvik)
      t1 == IF kv.onlem # 0 THEN [t EXCEPT !.yatirim_onlemi_kaydet = kv.onlem] ELSE t
  IN  IF kv.karar = "yatirim" THEN YatirimBaslat(t1, profil, efektif_fiyat)
      ELSE IF kv.karar = "kapat" THEN [t1 EXCEPT !.durum = "Kapali", !.emisyon = 0]
      ELSE t1

\* mutant: a Temiz facility is taken through the decision again
TesisAdimi_TemizKarar(t, profil, yl, kf, skdm, tesvik) ==
  IF t.durum = "Kapali" THEN t
  ELSE LET efektif_fiyat == EfektifFiyat(t, profil, kf, skdm)
           t1 == Tahsisat(t, yl)
       IN  IF t1.kalan_yatirim_suresi > 0 THEN YatirimIlerlet(t1)
           ELSE IF t1.durum \in {"Aktif", "Temiz"}
           THEN KararUygula(t1, profil, efektif_fiyat, tesvik)
           ELSE t1

\* EndustriyelTesis.step
TesisAdimi(t, profil, yl, kf, skdm, tesvik) ==
  IF t.durum = "Kapali" THEN t
  ELSE LET efektif_fiyat == EfektifFiyat(t, profil, kf, skdm)
           t1 == Tahsisat(t, yl)
       IN  IF t1.kalan_yatirim_suresi > 0 THEN YatirimIlerlet(t1)
           ELSE IF t1.durum = "Aktif"
           THEN KararUygula(t1, profil, efektif_fiyat, tesvik)
           ELSE t1

\* history: count the step r of a facility that began it as t
AdimSay(t, r) == IF t.durum # "Aktif" THEN [r EXCEPT !.g_adim = @ + 1] ELSE r

(***************************************************************************)
(* IhracatciAjani                                                          *)
(***************************************************************************)
\* _rekabet_gucu_hesapla, per mille
RekabetGucuHesapla(cbam_maliyeti) ==
  IF cbam_maliyeti > 0
  THEN Max(REKABET_TABAN, REKABET_TAM - (cbam_maliyeti * 100) \div MALIYET_ESIK)
  ELSE REKABET_TAM

\* mutant: the domestic price is not deducted
CbamMaliyeti_DusumYok(t, kf, skdm) == t.emisyon * skdm

\* the CBAM cost of IhracatciAjani.step, k$
CbamMaliyeti(t, kf, skdm) ==
  LET brut == t.emisyon * skdm
  IN  IF kf > 0 THEN brut - Min(brut, t.emisyon * kf) ELSE brut

\* IhracatciAjani.step
IhracatciAdimi(t, profil, yl, kf, skdm, tesvik) ==
  IF t.durum = "Kapali" THEN t
  ELSE LET t1 == IF t.ihracatci /\ profil.skdm_kapsam
                 THEN [t EXCEPT !.cbam_maliyeti = CbamMaliyeti(t, kf, skdm),
                                !.rekabet_gucu_indeksi =
                                   RekabetGucuHesapla(CbamMaliyeti(t, kf, skdm))]
                 ELSE [t EXCEPT !.cbam_maliyeti = 0]
       IN  TesisAdimi(t1, profil, yl, kf, skdm, tesvik)


(***************************************************************************)
(* MRVAjani                                                                *)
(***************************************************************************)
\* outcome of the draws for one facility: not audited, audited and
\* compliant, or audited and non-compliant with an under-reported share
DenetimSonuclari ==
  {[denetim |-> FALSE, oran |-> 0], [denetim |-> TRUE, oran |-> 0]}
    \cup {[denetim |-> TRUE, oran |-> o] : o \in EksikOranlar}

\* ceza = eksik_emisyon * ceza_miktari, k$
CezaHesapla(t, oran) == ((t.emisyon * oran) \div 100) * CEZA_MIKTARI

\* mutant: closed facilities are audited too
Denetlenebilir_KapaliDahil(t) == TRUE

\* the facilities MRVAjani.step draws for
Denetlenebilir(t) == t.durum # "Kapali"

\* mutant: the MRV agent also settles the facility's uncovered emission
CezaBildir_NetSifirlar(t, sonuc) ==
  IF sonuc.oran > 0
  THEN [t EXCEPT !.ceza_durumu = TRUE, !.ceza_miktari = CezaHesapla(t, sonuc.oran),
                 !.net_emisyon = 0]
  ELSE t

\* MRVAjani.step, the write to one facility
CezaBildir(t, sonuc) ==
  IF sonuc.oran > 0
  THEN [t EXCEPT !.ceza_durumu = TRUE, !.ceza_miktari = CezaHesapla(t, sonuc.oran)]
  ELSE t

RECURSIVE CezaTopla(_, _, _)
CezaTopla(ts, d, k) ==
  IF k = 0 THEN 0
  ELSE CezaTopla(ts, d, k - 1)
       + (IF d[k].oran > 0 THEN CezaHesapla(ts[k], d[k].oran) ELSE 0)

(***************************************************************************)
(* Hanehalki                                                               *)
(***************************************************************************)
GelirGruplari == {"dusuk", "orta", "yuksek"}

\* self.elastikiyet by gelir_grubu, in percent
ELASTIKIYET == [dusuk |-> -60, orta |-> -40, yuksek |-> -25]

\* np.random.uniform(min_t, max_t) of tuketim_aralik, kWh: the draws taken
Tuketimler == [dusuk |-> {2000}, orta |-> {3000}, yuksek |-> {5000}]

\* (self.tuketim / 1000) * EMISYON_FAKTORU_TR, in kg
BazEmisyon(tuketim) == (tuketim * EMISYON_FAKTORU_TR) \div 1000

\* mutant: the price effect without its floor
FiyatEtkisi_TabanYok(elastikiyet, kf) ==
  ETKI_TAM + (elastikiyet * kf * 100) \div REFERANS_FIYAT

\* fiyat_etkisi = max(0.5, 1 + elastikiyet * (karbon_fiyati / 100)), in 1/10000
FiyatEtkisi(elastikiyet, kf) ==
  Max(ETKI_TABAN, ETKI_TAM + (elastikiyet * kf * 100) \div REFERANS_FIYAT)

\* the emission Hanehalki.step computes at carbon price kf, in kg
HanehalkiEmisyon(tuketim, elastikiyet, kf) ==
  IF kf > 0
  THEN (BazEmisyon(tuketim) * FiyatEtkisi(elastikiyet, kf)) \div ETKI_TAM
  ELSE BazEmisyon(tuketim)

\* Hanehalki.__init__
YeniHane(grup, tuketim) ==
  [ ajan_tipi |-> "Hanehalki",
    gelir_grubu |-> grup,
    tuketim |-> tuketim,
    emisyon |-> BazEmisyon(tuketim),
    baslangic_emisyon |-> BazEmisyon(tuketim),
    durum |-> "Aktif",
    elastikiyet |-> ELASTIKIYET[grup] ]

\* Hanehalki.step
HaneAdimi(h, kf) ==
  IF h.durum # "Aktif" THEN h
  ELSE [h EXCEPT !.emisyon = HanehalkiEmisyon(h.tuketim, h.elastikiyet, kf)]

(***************************************************************************)
(* ProjeGelistirici                                                        *)
(***************************************************************************)
\* proje_tipleri, in the dict's order: MW, k$/MW, capacity factor in
\* percent, years
PROJE_TIPLERI ==
  << [tip |-> "GES", kapasite |-> 10, yatirim |-> 700, kf |-> 18, omur |-> 25],
     [tip |-> "RES", kapasite |-> 20, yatirim |-> 1200, kf |-> 35, omur |-> 25] >>

\* np.random.uniform(10e6, 100e6) of sermaye, k$, and
\* np.random.uniform(0.08, 0.15) of risk_primi, percent: the draws taken
Sermayeler == {10000, 40000}
RiskPrimleri == {10}

\* 1 / (1 + risk_primi)^t in millionths
RECURSIVE RiskIskonto(_, _)
RiskIskonto(t, risk_primi) ==
  IF t = 0 THEN 1000000 ELSE (RiskIskonto(t - 1, risk_primi) * 100) \div (100 + risk_primi)

RECURSIVE GelirTopla(_, _, _)
GelirTopla(yillik_gelir, t, risk_primi) ==
  IF t = 0 THEN 0
  ELSE GelirTopla(yillik_gelir, t - 1, risk_primi)
       + yillik_gelir * (RiskIskonto(t, risk_primi) \div 1000)

\* _npv_hesapla, in $ (yearly revenue in k$)
NpvHesapla(params, risk_primi, fiyat, tesvik) ==
  LET yillik_uretim == (params.kapasite * params.kf * YIL_SAATI) \div 100
      enerji_geliri == (yillik_uretim * ENERJI_FIYATI) \div 1000
      karbon_geliri == (yillik_uretim * fiyat) \div 2000
      tesvik_geliri == (tesvik * params.kapasite) \div 1000
      yillik_gelir == enerji_geliri + karbon_geliri + tesvik_geliri
  IN  GelirTopla(yillik_gelir, params.omur, risk_primi)
        - params.kapasite * params.yatirim * 1000

\* ProjeGelistirici.__init__
YeniGelistirici(sermaye, risk_primi) ==
  [ ajan_tipi |-> "ProjeGelistirici",
    sermaye |-> sermaye,
    risk_primi |-> risk_primi,
    projeler |-> << >>,
    toplam_kapasite |-> 0 ]

\* mutant: the capital is not tested before a commitment
SermayeYeter_Hep(sermaye, toplam_yatirim) == TRUE

\* if self.sermaye >= toplam_yatirim
SermayeYeter(sermaye, toplam_yatirim) == sermaye >= toplam_yatirim

\* ProjeGelistirici.step, the loop over proje_tipleri from entry k on;
\* g is [ajan, eklenen]: the developer and the capacity added to the model
RECURSIVE ProjeDongusu(_, _, _, _, _)
ProjeDongusu(g, k, yl, fiyat, tesvik) ==
  IF k > Len(PROJE_TIPLERI) THEN g
  ELSE LET params == PROJE_TIPLERI[k]
           toplam_yatirim == params.kapasite * params.yatirim
           yap == /\ SermayeYeter(g.ajan.sermaye, toplam_yatirim)
                  /\ NpvHesapla(params, g.ajan.risk_primi, fiyat, tesvik) > 0
       IN  ProjeDongusu(
             IF yap
             THEN [ajan |-> [g.ajan EXCEPT
                               !.sermaye = @ - toplam_yatirim,
                               !.toplam_kapasite = @ + params.kapasite,
                               !.projeler = Append(@, [tip |-> params.tip,
                                                       kapasite |-> params.kapasite,
                                                       yil |-> yl])],
                   eklenen |-> g.eklenen + params.kapasite]
             ELSE g,
             k + 1, yl, fiyat, tesvik)

\* mutant: the model's cumulative capacity is not updated
GelistiriciAdimi_ModelEksik(a, yl, fiyat, tesvik) ==
  [ProjeDongusu([ajan |-> a, eklenen |-> 0], 1, yl, fiyat, tesvik)
     EXCEPT !.eklenen = 0]

\* ProjeGelistirici.step
GelistiriciAdimi(a, yl, fiyat, tesvik) ==
  ProjeDongusu([ajan |-> a, eklenen |-> 0], 1, yl, fiyat, tesvik)

(***************************************************************************)
(* TurkiyeETSModel                                                         *)
(***************************************************************************)
\* TurkiyeETSModel.__init__.  The exporter draw (random.random() <
\* ihracat_orani, 0 < ihracat_orani < 1) can fall either way; it is read only
\* together with skdm_kapsam, and is drawn here only where that flag is set.
InitKosu(K) ==
  /\ yil = BASLANGIC_YIL
  /\ karbon_fiyati = 0
  /\ ets_aktif = FALSE
  /\ acik_artirma_aktif = FALSE
  /\ \E s \in {ko.senaryo : ko \in K}, k \in {ko.katalog : ko \in K},
        n \in {ko.nufus : ko \in K} :
       /\ param = [senaryo |-> s, katalog |-> k, nufus |-> n]
       /\ param \in K
       /\ op = [cap |-> s.baslangic_cap,
                azalma_orani |-> s.cap_azalma_orani,
                piyasa_fiyati |-> TABAN_FIYAT,
                fiyat_gecmisi |-> << >>,
                toplam_gelir |-> 0,
                hata |-> FALSE]
       /\ \E g \in [1..n.hanehalki -> GelirGruplari] :
            \E tk \in [1..n.hanehalki -> UNION {Tuketimler[x] : x \in GelirGruplari}] :
              /\ \A j \in 1..n.hanehalki : tk[j] \in Tuketimler[g[j]]
              /\ hane = [j \in 1..n.hanehalki |-> YeniHane(g[j], tk[j])]
       /\ \E sr \in [1..n.yatirimci -> Sermayeler], rp \in [1..n.yatirimci -> RiskPrimleri] :
            gelistirici = [j \in 1..n.yatirimci |-> YeniGelistirici(sr[j], rp[j])]
       /\ \E c \in [1..TesisSayisi(n) -> Carpanlar],
             ihr \in [1..TesisSayisi(n) -> BOOLEAN] :
            /\ \A i \in 1..TesisSayisi(n) :
                 ihr[i] => Katalog(k)[SektorOf(n, i)].skdm_kapsam
            /\ tesis = [i \in 1..TesisSayisi(n) |->
                         YeniTesis(Katalog(k), SektorOf(n, i), AjanTipiOf(n, i),
                                   c[i], ihr[i])]
  /\ mrv = [toplam_denetim |-> 0, toplam_ceza |-> 0, uyumsuz_tesis_sayisi |-> 0]
  /\ yenilenebilir_kapasite = 0
  /\ kayit = [satir_sayisi |-> 0, ilk_toplam_emisyon |-> 0, toplam_emisyon |-> 0,
              yil |-> 0, karbon_fiyati |-> 0, cap |-> 0, cbam_toplam_maliyet |-> 0]
  /\ bekleyen = {}
  /\ pc = "hazir"

\* the runs of the model
Init == InitKosu(Kosular)

\* _toplam_emisyon, the Toplam_Emisyon column: the emission attributes of
\* the facilities that are not Kapali and of the households, added as the
\* numbers they are (facilities in Mt, households in t)
RECURSIVE HaneEmisyonTopla(_, _)
HaneEmisyonTopla(hs, k) ==
  IF k = 0 THEN 0 ELSE HaneEmisyonTopla(hs, k - 1) + hs[k].emisyon

ToplamEmisyon(ts, hs) == EmisyonTopla(ts, Len(ts)) + HaneEmisyonTopla(hs, Len(hs))

\* _cbam_toplam_maliyet, the CBAM_Toplam_Maliyet column: the cbam_maliyeti
\* attributes of the agents that have one (the IhracatciAjani instances)
RECURSIVE CbamTopla(_, _)
CbamTopla(ts, k) ==
  IF k = 0 THEN 0
  ELSE CbamTopla(ts, k - 1)
       + (IF ts[k].ajan_tipi = "IhracatciTesis" THEN ts[k].cbam_maliyeti ELSE 0)

CbamToplamMaliyet(ts) == CbamTopla(ts, Len(ts))

\* mutant: the CBAM column accumulates over the rows
SatirTopla_SkdmBirikir(r, yl, kf, cap, ts, hs) ==
  [satir_sayisi |-> r.satir_sayisi + 1,
   ilk_toplam_emisyon |->
     IF r.satir_sayisi = 0 THEN ToplamEmisyon(ts, hs) ELSE r.ilk_toplam_emisyon,
   toplam_emisyon |-> ToplamEmisyon(ts, hs),
   yil |-> yl,
   karbon_fiyati |-> kf,
   cap |-> cap,
   cbam_toplam_maliyet |-> r.cbam_toplam_maliyet + CbamToplamMaliyet(ts)]

\* mutant: the row is collected after the year has advanced
SatirTopla_YilSonrasi(r, yl, kf, cap, ts, hs) ==
  [satir_sayisi |-> r.satir_sayisi + 1,
   ilk_toplam_emisyon |->
     IF r.satir_sayisi = 0 THEN ToplamEmisyon(ts, hs) ELSE r.ilk_toplam_emisyon,
   toplam_emisyon |-> ToplamEmisyon(ts, hs),
   yil |-> yl + 1,
   karbon_fiyati |-> kf,
   cap |-> cap,
   cbam_toplam_maliyet |-> CbamToplamMaliyet(ts)]

\* datacollector.collect: the row added to the table whose last row is r.
\* kayit keeps the number of rows, the Toplam_Emisyon of the first row and
\* the Yil, Karbon_Fiyati, Toplam_Emisyon, Cap and CBAM_Toplam_Maliyet
\* columns of the last row
SatirTopla(r, yl, kf, cap, ts, hs) ==
  [satir_sayisi |-> r.satir_sayisi + 1,
   ilk_toplam_emisyon |->
     IF r.satir_sayisi = 0 THEN ToplamEmisyon(ts, hs) ELSE r.ilk_toplam_emisyon,
   toplam_emisyon |-> ToplamEmisyon(ts, hs),
   yil |-> yl,
   karbon_fiyati |-> kf,
   cap |-> cap,
   cbam_toplam_maliyet |-> CbamToplamMaliyet(ts)]

\* TurkiyeETSModel.step up to shuffle_do: the timeline flags and the data
\* collection; every agent is then due one step
ModelStepBasla ==
  /\ pc = "hazir"
  /\ yil < BASLANGIC_YIL + YIL_SAYISI
  /\ ets_aktif' = (ets_aktif \/ yil = PILOT_BASLANGIC)
  /\ acik_artirma_aktif' = (acik_artirma_aktif \/ yil = TAM_UYGULAMA)
  /\ kayit' = SatirTopla(kayit, yil, karbon_fiyati, op.cap, tesis, hane)
  /\ bekleyen' = TumAjanlar(Len(tesis), Len(hane), Len(gelistirici))
  /\ pc' = "ajanlar"
  /\ UNCHANGED <<yil, karbon_fiyati, param, op, mrv, tesis, hane, gelistirici,
                 yenilenebilir_kapasite>>

\* mutant: the price is set and recorded but not published to the model
PiyasaOperatoruStep_Yayinlamaz ==
  /\ pc = "ajanlar"
  /\ OpAjan \in bekleyen
  /\ LET cap == YeniCap(op.cap, op.azalma_orani, yil)
         emisyon == ToplamEmisyonHesapla(tesis)
         fiyat == FiyatBelirle(yil, cap, emisyon)
     IN  IF BolmeHatasi(yil, cap, emisyon)
         THEN /\ op' = [op EXCEPT !.cap = cap, !.hata = TRUE]
              /\ karbon_fiyati' = karbon_fiyati
              /\ pc' = "hata"
         ELSE /\ op' = [op EXCEPT !.cap = cap,
                                  !.piyasa_fiyati = fiyat,
                                  !.fiyat_gecmisi = Append(@, fiyat),
                                  !.toplam_gelir = @ + AcikArtirmaGeliri(yil, cap, fiyat)]
              /\ karbon_fiyati' = karbon_fiyati
              /\ pc' = pc
  /\ bekleyen' = bekleyen \ {OpAjan}
  /\ UNCHANGED <<yil, ets_aktif, acik_artirma_aktif, param, mrv, tesis, hane,
                 gelistirici, yenilenebilir_kapasite, kayit>>

\* PiyasaOperatoru.step
PiyasaOperatoruStep ==
  /\ pc = "ajanlar"
  /\ OpAjan \in bekleyen
  /\ LET cap == YeniCap(op.cap, op.azalma_orani, yil)
         emisyon == ToplamEmisyonHesapla(tesis)
         fiyat == FiyatBelirle(yil, cap, emisyon)
     IN  IF BolmeHatasi(yil, cap, emisyon)
         THEN \* the exception leaves step after the cap assignment
              /\ op' = [op EXCEPT !.cap = cap, !.hata = TRUE]
              /\ karbon_fiyati' = karbon_fiyati
              /\ pc' = "hata"
         ELSE /\ op' = [op EXCEPT !.cap = cap,
                                  !.piyasa_fiyati = fiyat,
                                  !.fiyat_gecmisi = Append(@, fiyat),
                                  !.toplam_gelir = @ + AcikArtirmaGeliri(yil, cap, fiyat)]
              /\ karbon_fiyati' = fiyat
              /\ pc' = pc
  /\ bekleyen' = bekleyen \ {OpAjan}
  /\ UNCHANGED <<yil, ets_aktif, acik_artirma_aktif, param, mrv, tesis, hane,
                 gelistirici, yenilenebilir_kapasite, kayit>>

\* MRVAjani.step
MRVStep ==
  /\ pc = "ajanlar"
  /\ MrvAjan \in bekleyen
  /\ \E d \in [Tesisler -> DenetimSonuclari] :
       /\ \A i \in Tesisler : ~Denetlenebilir(tesis[i]) => ~d[i].denetim
       /\ mrv.toplam_denetim + Cardinality({i \in Tesisler : d[i].denetim}) <= MaxDenetim
       /\ tesis' = [i \in Tesisler |-> CezaBildir(tesis[i], d[i])]
       /\ mrv' = [toplam_denetim |->
                    mrv.toplam_denetim + Cardinality({i \in Tesisler : d[i].denetim}),
                  toplam_ceza |-> mrv.toplam_ceza + CezaTopla(tesis, d, Len(tesis)),
                  uyumsuz_tesis_sayisi |->
                    Cardinality({i \in Tesisler : d[i].oran > 0})]
  /\ bekleyen' = bekleyen \ {MrvAjan}
  /\ UNCHANGED <<yil, karbon_fiyati, ets_aktif, acik_artirma_aktif, param, op, hane,
                 gelistirici, yenilenebilir_kapasite, kayit, pc>>

\* EndustriyelTesis.step of facility i
TesisStep(i) ==
  /\ pc = "ajanlar"
  /\ TesisAjan(i) \in bekleyen
  /\ tesis[i].ajan_tipi = "Tesis"
  /\ tesis' = [tesis EXCEPT ![i] =
                 AdimSay(tesis[i],
                   TesisAdimi(tesis[i], Profil(i), yil, karbon_fiyati,
                              param.senaryo.ab_skdm_fiyat, param.senaryo.tesvik_miktari))]
  /\ bekleyen' = bekleyen \ {TesisAjan(i)}
  /\ UNCHANGED <<yil, karbon_fiyati, ets_aktif, acik_artirma_aktif, param, op, mrv,
                 hane, gelistirici, yenilenebilir_kapasite, kayit, pc>>

\* IhracatciAjani.step of facility i
IhracatciStep(i) ==
  /\ pc = "ajanlar"
  /\ TesisAjan(i) \in bekleyen
  /\ tesis[i].ajan_tipi = "IhracatciTesis"
  /\ tesis' = [tesis EXCEPT ![i] =
                 AdimSay(tesis[i],
                   IhracatciAdimi(tesis[i], Profil(i), yil, karbon_fiyati,
                                  param.senaryo.ab_skdm_fiyat, param.senaryo.tesvik_miktari))]
  /\ bekleyen' = bekleyen \ {TesisAjan(i)}
  /\ UNCHANGED <<yil, karbon_fiyati, ets_aktif, acik_artirma_aktif, param, op, mrv,
                 hane, gelistirici, yenilenebilir_kapasite, kayit, pc>>

\* Hanehalki.step of household j
HanehalkiStep(j) ==
  /\ pc = "ajanlar"
  /\ HaneAjan(j) \in bekleyen
  /\ hane' = [hane EXCEPT ![j] = HaneAdimi(hane[j], karbon_fiyati)]
  /\ bekleyen' = bekleyen \ {HaneAjan(j)}
  /\ UNCHANGED <<yil, karbon_fiyati, ets_aktif, acik_artirma_aktif, param, op, mrv,
                 tesis, gelistirici, yenilenebilir_kapasite, kayit, pc>>

\* ProjeGelistirici.step of developer j
ProjeGelistiriciStep(j) ==
  /\ pc = "ajanlar"
  /\ GelistiriciAjan(j) \in bekleyen
  /\ LET g == GelistiriciAdimi(gelistirici[j], yil, karbon_fiyati,
                               param.senaryo.tesvik_miktari)
     IN  /\ gelistirici' = [gelistirici EXCEPT ![j] = g.ajan]
         /\ yenilenebilir_kapasite' = yenilenebilir_kapasite + g.eklenen
  /\ bekleyen' = bekleyen \ {GelistiriciAjan(j)}
  /\ UNCHANGED <<yil, karbon_fiyati, ets_aktif, acik_artirma_aktif, param, op, mrv,
                 tesis, hane, kayit, pc>>

\* mutant: the year advances while agents are still due their step
YilIlerlet_Erken ==
  /\ pc = "ajanlar"
  /\ OpAjan \notin bekleyen
  /\ yil' = yil + 1
  /\ pc' = "hazir"
  /\ bekleyen' = {}
  /\ UNCHANGED <<karbon_fiyati, ets_aktif, acik_artirma_aktif, param, op, mrv,
                 tesis, hane, gelistirici, yenilenebilir_kapasite, kayit>>

\* TurkiyeETSModel.step after shuffle_do: self.yil += 1
YilIlerlet ==
  /\ pc = "ajanlar"
  /\ bekleyen = {}
  /\ yil' = yil + 1
  /\ pc' = "hazir"
  /\ UNCHANGED <<karbon_fiyati, ets_aktif, acik_artirma_aktif, param, op, mrv,
                 tesis, hane, gelistirici, yenilenebilir_kapasite, kayit, bekleyen>>

Next ==
  \/ ModelStepBasla
  \/ PiyasaOperatoruStep
  \/ MRVStep
  \/ \E i \in Tesisler : TesisStep(i)
  \/ \E i \in Tesisler : IhracatciStep(i)
  \/ \E j \in Haneler : HanehalkiStep(j)
  \/ \E j \in Gelistiriciler : ProjeGelistiriciStep(j)
  \/ YilIlerlet

Spec == Init /\ [][Next]_vars

\* run_simulation calls step() for every tick and shuffle_do calls every
\* agent's step: a run does not stop while a step is due
InitAdil == InitKosu(AdilKosular)
AdilSpec == InitAdil /\ [][Next]_vars /\ WF_vars(Next)


(***************************************************************************)
(* Vocabulary of the properties                                            *)
(***************************************************************************)
\* the step from this state to the next is a step of facility i
TesisAdimladi(i) == TesisAjan(i) \in bekleyen /\ TesisAjan(i) \notin bekleyen'

\* facility i is an IhracatciAjani whose step computes the CBAM cost: it
\* is not Kapali, carries the exporter flag and its sector is under CBAM
SkdmUygun(i) ==
  /\ tesis[i].ajan_tipi = "IhracatciTesis"
  /\ tesis[i].durum # "Kapali"
  /\ tesis[i].ihracatci
  /\ Profil(i).skdm_kapsam

\* _tesis_sayisi: the facility agents whose durum is the given one
TesisSayisiDurum(ts, durum) ==
  Cardinality({i \in DOMAIN ts :
                 /\ ts[i].ajan_tipi \in {"Tesis", "IhracatciTesis"}
                 /\ ts[i].durum = durum})

\* _ihracatci_sayisi
IhracatciSayisi(ts) ==
  Cardinality({i \in DOMAIN ts : ts[i].ajan_tipi = "IhracatciTesis"})

\* _hanehalki_sayisi
HanehalkiSayisi(hs) ==
  Cardinality({j \in DOMAIN hs : hs[j].ajan_tipi = "Hanehalki"})

\* the sum of the developers' toplam_kapasite
RECURSIVE KapasiteTopla(_, _)
KapasiteTopla(gs, k) ==
  IF k = 0 THEN 0 ELSE KapasiteTopla(gs, k - 1) + gs[k].toplam_kapasite

\* the sum of the capacities in a project log
RECURSIVE ProjeKapasiteTopla(_, _)
ProjeKapasiteTopla(ps, k) ==
  IF k = 0 THEN 0 ELSE ProjeKapasiteTopla(ps, k - 1) + ps[k].kapasite

\* total capital cost of the archetype named tip, k$
YatirimTutari(tip) ==
  LET params == PROJE_TIPLERI[CHOOSE k \in 1..Len(PROJE_TIPLERI) :
                                PROJE_TIPLERI[k].tip = tip]
  IN  params.kapasite * params.yatirim

\* the capital left after paying for the records k..Len(ps) of a log one
\* after the other, or -1 if the capital at some moment does not cover one
RECURSIVE SiraylaOde(_, _, _)
SiraylaOde(sermaye, ps, k) ==
  IF k > Len(ps) THEN sermaye
  ELSE IF sermaye < YatirimTutari(ps[k].tip) THEN -1
  ELSE SiraylaOde(sermaye - YatirimTutari(ps[k].tip), ps, k + 1)

\* the log qs is the log ps with records appended
LogEklendi(ps, qs) ==
  Len(qs) >= Len(ps) /\ SubSeq(qs, 1, Len(ps)) = ps

\* the longest investment a facility with this profile can start
EnUzunSure(profil) ==
  LET sureler == {profil.mac_onlemler[k].sure : k \in 1..Len(profil.mac_onlemler)}
                   \cup {GENEL_SURE}
  IN  CHOOSE d \in sureler : \A e \in sureler : e <= d

\* the last tick of the run
SonTik == BASLANGIC_YIL + YIL_SAYISI - 1

\* facility i carries a penalty flag, is not Kapali, and enough ticks are
\* left for an investment started at its next step to complete
CezaliVeSureVar(i) ==
  IF i \in Tesisler
  THEN /\ tesis[i].ceza_durumu
       /\ tesis[i].durum # "Kapali"
       /\ yil + 1 + EnUzunSure(Profil(i)) <= SonTik
  ELSE FALSE

\* ... and it is on its way to a completion: its investment is running, or
\* it is Aktif and its decision at the next step is to invest (Vergi: forced
\* by the flag; Tesvik: the incentive test)
CezaliYatirimYolunda(i) ==
  IF i \in Tesisler
  THEN /\ tesis[i].ceza_durumu
       /\ \/ tesis[i].durum = "Donusum" /\ yil + tesis[i].kalan_yatirim_suresi <= SonTik
          \/ /\ tesis[i].durum = "Aktif"
             /\ yil + 1 + EnUzunSure(Profil(i)) <= SonTik
             /\ \/ Profil(i).duyarlilik = "Vergi"
                \/ TesvikYeterli(Profil(i), param.senaryo.tesvik_miktari)
  ELSE FALSE

\* facility i carries no penalty flag
CezaSilindi(i) == IF i \in Tesisler THEN ~tesis[i].ceza_durumu ELSE TRUE

\* the step from this state to the next begins a tick (TurkiyeETSModel.step
\* up to the data collection)
TikBasladi == pc = "hazir" /\ pc' = "ajanlar"

\* ... a step of the market operator
OpAdimladi == OpAjan \in bekleyen /\ OpAjan \notin bekleyen'

\* the effective price facility i computes if it steps in this state
EfektifFiyatOf(i) ==
  IF tesis[i].ihracatci /\ Profil(i).skdm_kapsam
  THEN Max(karbon_fiyati, param.senaryo.ab_skdm_fiyat)
  ELSE karbon_fiyati

\* the catalog entries named by facility i's yatirim_durumu
SecilenOnlemler(i) ==
  {k \in 1..Len(Profil(i).mac_onlemler) :
     Profil(i).mac_onlemler[k].ad = tesis[i].yatirim_durumu}

\* duration and reduction (percent) of the investment facility i has started
YatirimSuresi(i) ==
  IF tesis[i].yatirim_durumu = "genel_iyilestirme" THEN GENEL_SURE
  ELSE Profil(i).mac_onlemler[CHOOSE k \in SecilenOnlemler(i) : TRUE].sure

YatirimPotansiyeli(i) ==
  IF tesis[i].yatirim_durumu = "genel_iyilestirme" THEN GENEL_POTANSIYEL
  ELSE Profil(i).mac_onlemler[CHOOSE k \in SecilenOnlemler(i) : TRUE].potansiyel

IzinliGecisler ==
  {<<"Aktif", "Donusum">>, <<"Donusum", "Temiz">>, <<"Aktif", "Kapali">>}

\* ... a step of the MRV agent, of household j, of developer j
MrvAdimladi == MrvAjan \in bekleyen /\ MrvAjan \notin bekleyen'
HaneAdimladi(j) == HaneAjan(j) \in bekleyen /\ HaneAjan(j) \notin bekleyen'
GelistiriciAdimladi(j) ==
  GelistiriciAjan(j) \in bekleyen /\ GelistiriciAjan(j) \notin bekleyen'

\* the prices the operator can publish (0, or within floor and ceiling),
\* on a grid of 5 $/t
Fiyatlar == {0} \cup {f \in TABAN_FIYAT..TAVAN_FIYAT : f % 5 = 0}
\* ... every whole price
TumFiyatlar == {0} \cup (TABAN_FIYAT..TAVAN_FIYAT)

(***************************************************************************)
(* C1. Kapali is terminal: whatever agent steps, a facility that is Kapali *)
(* is Kapali with emission 0 in the next state, and a facility that closes *)
(* does so with emission 0.                                                *)
(***************************************************************************)
C1_KapaliKalici ==
  [][\A i \in Tesisler :
       (tesis[i].durum = "Kapali" \/ tesis'[i].durum = "Kapali")
         => (tesis'[i].durum = "Kapali" /\ tesis'[i].emisyon = 0)]_vars

\* a closed facility has stepped again, and the MRV agent has stepped too
C1_Tanik ==
  \E i \in Tesisler :
    /\ tesis[i].durum = "Kapali"
    /\ tesis[i].g_adim > 0
    /\ pc = "ajanlar" /\ MrvAjan \notin bekleyen /\ TesisAjan(i) \notin bekleyen

(***************************************************************************)
(* C2. The only status changes are Aktif -> Donusum, Donusum -> Temiz and  *)
(* Aktif -> Kapali, and no facility starts more than one investment.       *)
(***************************************************************************)
C2_DurumGecisleri ==
  [][\A i \in Tesisler :
       /\ tesis'[i].durum # tesis[i].durum
            => <<tesis[i].durum, tesis'[i].durum>> \in IzinliGecisler
       /\ tesis'[i].g_yatirim <= 1]_vars

\* a facility has completed its investment and has stepped as Temiz since
C2_Tanik ==
  \E i \in Tesisler :
    /\ tesis[i].durum = "Temiz"
    /\ tesis[i].g_yatirim = 1
    /\ tesis[i].g_adim > YatirimSuresi(i)

(***************************************************************************)
(* C3. With a reduction rate in [0, 1]: no step changes the cap while the  *)
(* year is before PILOT_BASLANGIC; the cap never grows; and an operator    *)
(* step from PILOT_BASLANGIC on leaves cap * (1 - rate).                   *)
(***************************************************************************)
C3_CapAzalma ==
  [][/\ yil < PILOT_BASLANGIC => op'.cap = op.cap
     /\ op'.cap <= op.cap
     /\ (OpAdimladi /\ yil >= PILOT_BASLANGIC)
          => op'.cap = (op.cap * (100 - op.azalma_orani)) \div 100
     /\ ~OpAdimladi => op'.cap = op.cap]_vars

\* the operator has stepped in 2025 and in 2026 and the cap has shrunk once
C3_Tanik ==
  /\ Len(op.fiyat_gecmisi) = 2
  /\ op.azalma_orani > 0
  /\ op.cap < param.senaryo.baslangic_cap
  /\ op.cap = (param.senaryo.baslangic_cap * (100 - op.azalma_orani)) \div 100

(***************************************************************************)
(* C4. The operator's market price is 0 or within [TABAN_FIYAT,            *)
(* TAVAN_FIYAT] in every state, and is 0 in every state whose year is      *)
(* before PILOT_BASLANGIC.                                                 *)
(***************************************************************************)
C4_PiyasaFiyati ==
  /\ op.piyasa_fiyati = 0
       \/ (TABAN_FIYAT <= op.piyasa_fiyati /\ op.piyasa_fiyati <= TAVAN_FIYAT)
  /\ yil < PILOT_BASLANGIC => op.piyasa_fiyati = 0

(***************************************************************************)
(* C5. Every facility's banked allowance and net uncovered emission are    *)
(* >= 0 in every state.                                                    *)
(***************************************************************************)
C5_BankaVeNetEmisyon ==
  \A i \in Tesisler : tesis[i].izin_bankasi >= 0 /\ tesis[i].net_emisyon >= 0

\* a deficit year after a surplus year: part of the deficit was drawn from
\* the bank, the rest is net uncovered emission
C5_Tanik ==
  \E i \in Tesisler :
    /\ tesis[i].net_emisyon > 0
    /\ tesis[i].net_emisyon < tesis[i].emisyon - tesis[i].ucretsiz_tahsisat
    /\ tesis[i].izin_bankasi = 0

C7_BauFiyatSifir ==
  (param.senaryo.ad = "BAU" /\ param.katalog = "SEKTOR_PROFILLERI")
    => /\ karbon_fiyati = 0
       /\ \A i \in Tesisler : tesis[i].durum # "Kapali"

(***************************************************************************)
(* C8. A Vergi facility that is Aktif and carries a penalty flag when its  *)
(* step begins is Donusum when the step ends, at every effective price.    *)
(***************************************************************************)
C8_CezaYatirimZorlar ==
  [][\A i \in Tesisler :
       ( /\ TesisAdimladi(i)
         /\ tesis[i].durum = "Aktif"
         /\ tesis[i].ceza_durumu
         /\ Profil(i).duyarlilik = "Vergi" )
       => tesis'[i].durum = "Donusum"]_vars

\* a flagged Vergi facility has started its investment in 2025, at
\* effective price 0
C8_Tanik ==
  \E i \in Tesisler :
    /\ Profil(i).duyarlilik = "Vergi"
    /\ tesis[i].durum = "Donusum"
    /\ tesis[i].ceza_durumu
    /\ yil = BASLANGIC_YIL
    /\ EfektifFiyatOf(i) = 0

(***************************************************************************)
(* C9. A facility whose investment has duration d stays Donusum with its   *)
(* emission unchanged through its first d - 1 following steps and becomes  *)
(* Temiz in the d-th, which multiplies the emission by (1 - reduction) and *)
(* ends with the penalty flag false; no other step changes the emission of *)
(* a Donusum or Temiz facility.                                            *)
(***************************************************************************)
C9_YatirimTamamlanir ==
  [][\A i \in Tesisler :
       /\ (TesisAdimladi(i) /\ tesis[i].durum = "Donusum")
            => IF tesis[i].g_adim + 1 = YatirimSuresi(i)
               THEN /\ tesis'[i].durum = "Temiz"
                    /\ tesis'[i].emisyon =
                         (tesis[i].emisyon * (100 - YatirimPotansiyeli(i))) \div 100
                    /\ ~tesis'[i].ceza_durumu
               ELSE /\ tesis'[i].durum = "Donusum"
                    /\ tesis'[i].emisyon = tesis[i].emisyon
                    /\ tesis[i].g_adim + 1 < YatirimSuresi(i)
       /\ (tesis[i].durum = "Donusum" /\ ~TesisAdimladi(i))
            => tesis'[i].emisyon = tesis[i].emisyon
       /\ tesis[i].durum = "Donusum" => tesis[i].emisyon = tesis[i].baslangic_emisyon
       /\ tesis[i].durum = "Temiz" => tesis'[i].emisyon = tesis[i].emisyon]_vars

\* a facility that was flagged has completed its investment: its emission
\* is reduced and its flag is cleared
C9_Tanik ==
  \E i \in Tesisler :
    /\ tesis[i].durum = "Temiz"
    /\ tesis[i].g_adim = YatirimSuresi(i)
    /\ tesis[i].emisyon < tesis[i].baslangic_emisyon
    /\ tesis[i].ceza_miktari > 0
    /\ ~tesis[i].ceza_durumu

(***************************************************************************)
(* C10. The step of an Aktif Vergi facility without a penalty flag starts  *)
(* an investment iff some catalog measure with MAC below the effective     *)
(* price has a positive NPV, and then records the measure of highest NPV   *)
(* among those, the first in catalog order on ties.                        *)
(***************************************************************************)
C10_EnIyiOnlemSecilir ==
  [][\A i \in Tesisler :
       ( /\ TesisAdimladi(i)
         /\ tesis[i].durum = "Aktif"
         /\ ~tesis[i].ceza_durumu
         /\ Profil(i).duyarlilik = "Vergi" )
       => LET ms == Profil(i).mac_onlemler
              ef == EfektifFiyatOf(i)
              Npv(k) == NPV(tesis[i].emisyon, ms[k], ef)
              Uygun == {k \in 1..Len(ms) : ms[k].mac < ef /\ Npv(k) > 0}
          IN  /\ tesis'[i].durum = "Donusum" <=> Uygun # {}
              /\ Uygun # {} =>
                   \E k \in Uygun :
                     /\ \A j \in Uygun : Npv(j) <= Npv(k)
                     /\ \A j \in Uygun : j < k => Npv(j) < Npv(k)
                     /\ tesis'[i].yatirim_durumu = ms[k].ad
                     /\ tesis'[i].kalan_yatirim_suresi = ms[k].sure
                     /\ tesis'[i].emisyon_azalma_potansiyeli = ms[k].potansiyel]_vars

\* a facility that was never flagged has chosen the first of two measures
\* of equal NPV
C10_Tanik ==
  \E i \in Tesisler :
    /\ param.katalog = "DAR_PROFILLER"
    /\ tesis[i].sektor = "Enerji"
    /\ tesis[i].yatirim_durumu = "yakit_degisimi"
    /\ tesis[i].ceza_miktari = 0

(***************************************************************************)
(* C11 (as claimed). The step of an Aktif Tesvik facility has the same     *)
(* outcome at every effective price: the facility it leaves is the one it  *)
(* would leave at any other price.                                         *)
(***************************************************************************)
C11_TesvikFiyatsiz ==
  [][\A i \in Tesisler :
       ( /\ TesisAdimladi(i)
         /\ tesis[i].ajan_tipi = "Tesis"
         /\ tesis[i].durum = "Aktif"
         /\ Profil(i).duyarlilik = "Tesvik" )
       => \A f \in Fiyatlar :
            tesis'[i] = AdimSay(tesis[i],
                          TesisAdimi(tesis[i], Profil(i), yil, f, f,
                                     param.senaryo.tesvik_miktari))]_vars

(***************************************************************************)
(* C11 (amended). At every effective price the step of an Aktif Tesvik     *)
(* facility takes the same decision: Donusum iff the subsidy is at least   *)
(* 0.6 * 1000 * yatirim_bedeli, else still Aktif, with or without a        *)
(* penalty flag, never Kapali.  The investment it starts is the first      *)
(* catalog measure with MAC below the effective price, or the generic      *)
(* three-year improvement when there is none.                              *)
(***************************************************************************)
C11_TesvikKarari ==
  [][\A i \in Tesisler :
       ( /\ TesisAdimladi(i)
         /\ tesis[i].ajan_tipi = "Tesis"
         /\ tesis[i].durum = "Aktif"
         /\ Profil(i).duyarlilik = "Tesvik" )
       => /\ tesis'[i].durum \in {"Aktif", "Donusum"}
          /\ \A f \in Fiyatlar :
               LET r == TesisAdimi(tesis[i], Profil(i), yil, f, f,
                                   param.senaryo.tesvik_miktari)
                   ms == Profil(i).mac_onlemler
                   U == {k \in 1..Len(ms) : ms[k].mac < f}
               IN  /\ r.durum = tesis'[i].durum
                   /\ r.durum = "Donusum" <=>
                        param.senaryo.tesvik_miktari
                          >= 6 * 100 * Profil(i).yatirim_bedeli
                   /\ r.durum = "Donusum" =>
                        IF U = {}
                        THEN /\ r.yatirim_durumu = "genel_iyilestirme"
                             /\ r.kalan_yatirim_suresi = GENEL_SURE
                             /\ r.emisyon_azalma_potansiyeli = GENEL_POTANSIYEL
                        ELSE \E k \in U :
                               /\ \A j \in U : k <= j
                               /\ r.yatirim_durumu = ms[k].ad
                               /\ r.kalan_yatirim_suresi = ms[k].sure
                               /\ r.emisyon_azalma_potansiyeli = ms[k].potansiyel]_vars

\* a Tesvik facility flagged in an earlier tick has stepped in this one and
\* is still Aktif
C11_Tanik ==
  \E i \in Tesisler :
    /\ Profil(i).duyarlilik = "Tesvik"
    /\ tesis[i].durum = "Aktif"
    /\ tesis[i].ceza_durumu
    /\ pc = "ajanlar"
    /\ TesisAjan(i) \notin bekleyen
    /\ MrvAjan \in bekleyen

(***************************************************************************)
(* C12. In every step a facility that is not Kapali takes in a scheme year *)
(* the ledger conserves allowances: bank' - net' = bank + free allocation  *)
(* - emission; a deficit becomes net uncovered emission only after the     *)
(* bank is exhausted; and the bank and the net uncovered emission are      *)
(* never both positive afterwards.                                         *)
(***************************************************************************)
C12_TahsisatKorunumu ==
  [][\A i \in Tesisler :
       ( /\ TesisAdimladi(i)
         /\ tesis[i].durum # "Kapali"
         /\ yil >= PILOT_BASLANGIC )
       => LET tahsisat == (tesis[i].baslangic_emisyon
                             * (IF yil < TAM_UYGULAMA THEN 100 ELSE 70)) \div 100
              eksik == tesis[i].emisyon - tahsisat
          IN  /\ tesis'[i].ucretsiz_tahsisat = tahsisat
              /\ tesis'[i].izin_bankasi - tesis'[i].net_emisyon
                   = tesis[i].izin_bankasi + tahsisat - tesis[i].emisyon
              /\ tesis'[i].net_emisyon = Max(0, eksik - tesis[i].izin_bankasi)
              /\ tesis'[i].net_emisyon > 0 => tesis'[i].izin_bankasi = 0
              /\ ~(tesis'[i].izin_bankasi > 0 /\ tesis'[i].net_emisyon > 0)]_vars

\* the first full-implementation year of a facility that banked a surplus
\* in the pilot: its step has drawn the bank to 0 and left the rest of the
\* deficit uncovered
C12_Tanik ==
  \E i \in Tesisler :
    /\ yil = TAM_UYGULAMA
    /\ pc = "ajanlar" /\ TesisAjan(i) \notin bekleyen
    /\ tesis[i].durum = "Temiz"
    /\ tesis[i].izin_bankasi = 0
    /\ tesis[i].net_emisyon > 0
    /\ tesis[i].net_emisyon < tesis[i].emisyon - tesis[i].ucretsiz_tahsisat

(***************************************************************************)
(* C13. In each tick every agent of the fixed roster steps exactly once,   *)
(* in any order: the tick makes the whole roster due, a step is taken by   *)
(* one agent that is due and makes only that agent no longer due, and the  *)
(* year advances only when no agent is due.  A facility that steps before  *)
(* the operator decides on the price published in the previous tick (0 in  *)
(* the first tick), one that steps after it on the price published in the  *)
(* same tick.                                                              *)
(***************************************************************************)
C13_TikBasinaBirAdim ==
  [][LET roster == TumAjanlar(Len(tesis), Len(hane), Len(gelistirici))
         tik == yil - BASLANGIC_YIL + 1
         yayinlanan == IF OpAjan \in bekleyen
                       THEN (IF tik = 1 THEN 0 ELSE op.fiyat_gecmisi[tik - 1])
                       ELSE op.fiyat_gecmisi[tik]
     IN  /\ Len(tesis') = Len(tesis) /\ Len(hane') = Len(hane)
         /\ Len(gelistirici') = Len(gelistirici)
         /\ (pc = "hazir" /\ pc' = "ajanlar") => (bekleyen' = roster /\ yil' = yil)
         /\ (pc = "ajanlar" /\ pc' = "ajanlar")
              => \E a \in bekleyen : bekleyen' = bekleyen \ {a}
         /\ yil' # yil => (bekleyen = {} /\ yil' = yil + 1 /\ pc' = "hazir")
         /\ pc = "hazir" => (bekleyen = {} /\ Len(op.fiyat_gecmisi) = yil - BASLANGIC_YIL)
         /\ OpAdimladi => Len(op'.fiyat_gecmisi) = tik
         /\ \A i \in Tesisler :
              TesisAdimladi(i)
                => tesis'[i] =
                     AdimSay(tesis[i],
                       IF tesis[i].ajan_tipi = "Tesis"
                       THEN TesisAdimi(tesis[i], Profil(i), yil, yayinlanan,
                                       param.senaryo.ab_skdm_fiyat,
                                       param.senaryo.tesvik_miktari)
                       ELSE IhracatciAdimi(tesis[i], Profil(i), yil, yayinlanan,
                                           param.senaryo.ab_skdm_fiyat,
                                           param.senaryo.tesvik_miktari))]_vars

\* in the first scheme year a facility has stepped before the operator: it
\* has decided on the price 0 of 2025 and waits
C13_Tanik ==
  \E i \in Tesisler :
    /\ yil = PILOT_BASLANGIC
    /\ pc = "ajanlar"
    /\ OpAjan \in bekleyen
    /\ TesisAjan(i) \notin bekleyen
    /\ Profil(i).duyarlilik = "Vergi"
    /\ ~(tesis[i].ihracatci /\ Profil(i).skdm_kapsam)
    /\ ~tesis[i].ceza_durumu
    /\ tesis[i].durum = "Aktif"
    /\ karbon_fiyati = 0

(***************************************************************************)
(* C14. Writes to shared state are confined: the carbon price and the cap  *)
(* change only in a step of the operator, the renewable capacity only in a *)
(* step of a project developer, a facility changes only in its own step or *)
(* (its penalty flag and amount only) in the step of the MRV agent; and a  *)
(* facility's step leaves the price, the cap, the renewable capacity and   *)
(* every other facility unchanged.                                         *)
(***************************************************************************)
C14_YazmaSinirlari ==
  [][/\ (karbon_fiyati' # karbon_fiyati \/ op'.cap # op.cap) => OpAdimladi
     /\ yenilenebilir_kapasite' # yenilenebilir_kapasite
          => \E j \in Gelistiriciler : GelistiriciAdimladi(j)
     /\ \A i \in Tesisler :
          /\ tesis'[i] # tesis[i]
               => \/ TesisAdimladi(i)
                  \/ /\ MrvAdimladi
                     /\ tesis'[i] = [tesis[i] EXCEPT
                                       !.ceza_durumu = tesis'[i].ceza_durumu,
                                       !.ceza_miktari = tesis'[i].ceza_miktari]
          /\ TesisAdimladi(i)
               => /\ karbon_fiyati' = karbon_fiyati
                  /\ op' = op
                  /\ yenilenebilir_kapasite' = yenilenebilir_kapasite
                  /\ mrv' = mrv /\ hane' = hane /\ gelistirici' = gelistirici
                  /\ \A k \in Tesisler \ {i} : tesis'[k] = tesis[k]]_vars

\* the MRV agent has flagged a facility in a scheme year with uncovered
\* emission, and a developer has added capacity
C14_Tanik ==
  \E i \in Tesisler :
    /\ tesis[i].ceza_durumu
    /\ tesis[i].net_emisyon > 0
    /\ tesis[i].durum = "Aktif"
    /\ yenilenebilir_kapasite > 0
    /\ pc = "ajanlar" /\ MrvAjan \notin bekleyen /\ TesisAjan(i) \notin bekleyen

(***************************************************************************)
(* C16 (as claimed). For every household and every two prices p1 < p2 the  *)
(* operator can publish, the emission the household's step computes at p2  *)
(* is strictly less than at p1, and never below half of the baseline.      *)
(***************************************************************************)
C16_HaneKesinAzalan ==
  [][\A j \in Haneler :
       HaneAdimladi(j)
         => /\ 2 * hane'[j].emisyon >= hane[j].baslangic_emisyon
            /\ \A p1, p2 \in Fiyatlar :
                 p1 < p2 =>
                   HanehalkiEmisyon(hane[j].tuketim, hane[j].elastikiyet, p2)
                     < HanehalkiEmisyon(hane[j].tuketim, hane[j].elastikiyet, p1)]_vars

(***************************************************************************)
(* C16 (amended). For every household and every two prices p1 < p2 the     *)
(* operator can publish, the emission computed at p2 is never more than at *)
(* p1; it is strictly less whenever the emission at p1 is above half of    *)
(* the baseline, and is half of the baseline otherwise.  Every step leaves *)
(* the emission computed at the price it reads, never below half of the    *)
(* baseline, and leaves consumption, elasticity and baseline as they were. *)
(***************************************************************************)
C16_HaneAzalan ==
  /\ \A j \in Haneler :
       LET E == [f \in TumFiyatlar |->
                  HanehalkiEmisyon(hane[j].tuketim, hane[j].elastikiyet, f)]
           yari == hane[j].baslangic_emisyon \div 2
       IN  /\ E[0] = hane[j].baslangic_emisyon
           /\ \A p1, p2 \in TumFiyatlar :
                p1 < p2 =>
                  /\ E[p2] <= E[p1]
                  /\ E[p1] > yari => E[p2] < E[p1]
                  /\ E[p1] = yari => E[p2] = yari
  /\ [][\A j \in Haneler :
          /\ hane'[j].tuketim = hane[j].tuketim
          /\ hane'[j].elastikiyet = hane[j].elastikiyet
          /\ hane'[j].baslangic_emisyon = hane[j].baslangic_emisyon
          /\ HaneAdimladi(j)
               => /\ hane'[j].emisyon =
                       HanehalkiEmisyon(hane[j].tuketim, hane[j].elastikiyet, karbon_fiyati)
                  /\ 2 * hane'[j].emisyon >= hane[j].baslangic_emisyon
                  /\ karbon_fiyati > 0 => hane'[j].emisyon < hane[j].baslangic_emisyon]_vars

\* a household has stepped at a price high enough for the floor: its
\* emission is half of its baseline
C16_Tanik ==
  \E j \in Haneler :
    /\ 2 * hane[j].emisyon = hane[j].baslangic_emisyon
    /\ karbon_fiyati >= (50 * REFERANS_FIYAT) \div (-hane[j].elastikiyet)
    /\ pc = "ajanlar" /\ HaneAjan(j) \notin bekleyen /\ OpAjan \notin bekleyen

(***************************************************************************)
(* C17. In a run of YIL_SAYISI ticks from 2025 under the Siki_ETS          *)
(* parameters (cap 60 Mt for the shipped population, reduction rate 0.04)  *)
(* the Toplam_Emisyon collected in the last tick is strictly less than the *)
(* one collected in the first tick, whatever the draws and agent orders.   *)
(***************************************************************************)
C17_EmisyonAzalir ==
  (param.senaryo.ad = "Siki_ETS" /\ kayit.satir_sayisi = YIL_SAYISI)
    => kayit.toplam_emisyon < kayit.ilk_toplam_emisyon

\* the run is over: eleven rows are collected, the last one in 2035, and
\* facilities are still emitting
C17_Tanik ==
  /\ param.senaryo.ad = "Siki_ETS"
  /\ kayit.satir_sayisi = YIL_SAYISI
  /\ yil = BASLANGIC_YIL + YIL_SAYISI
  /\ pc = "hazir"
  /\ ToplamEmisyonHesapla(tesis) > 0
  /\ kayit.toplam_emisyon < kayit.ilk_toplam_emisyon

(***************************************************************************)
(* C18. PiyasaOperatoru.step never fails: when the cap is <= 0 or the      *)
(* total emission of the facilities that are not Kapali is 0, the step     *)
(* divides nothing and publishes the price 0.  The first two conjuncts     *)
(* state it of the guard and the price for caps below, at and above zero;  *)
(* the last one of every operator step of every run.                       *)
(***************************************************************************)
C18_OpHatasiz ==
  /\ \A yl \in {BASLANGIC_YIL, PILOT_BASLANGIC, TAM_UYGULAMA},
        cap \in {-1000, 0, 1000}, emisyon \in {0, 1, 2000} :
       ~BolmeHatasi(yl, cap, emisyon)
  /\ \A yl \in {BASLANGIC_YIL, PILOT_BASLANGIC, TAM_UYGULAMA},
        cap \in {-1000, 0, 1000}, emisyon \in {0, 1, 2000} :
       (cap <= 0 \/ emisyon = 0) => FiyatBelirle(yl, cap, emisyon) = 0
  /\ [][OpAdimladi =>
          /\ ~op'.hata
          /\ pc' = "ajanlar"
          /\ Len(op'.fiyat_gecmisi) = Len(op.fiyat_gecmisi) + 1
          /\ (op'.cap <= 0 \/ ToplamEmisyonHesapla(tesis) = 0)
               => /\ op'.piyasa_fiyati = 0
                  /\ karbon_fiyati' = 0
                  /\ op'.toplam_gelir = op.toplam_gelir]_vars

\* the operator has stepped in an active year with the cap at zero while
\* facilities emit: the division would have failed, the price is 0
C18_Tanik ==
  /\ pc = "ajanlar"
  /\ OpAjan \notin bekleyen
  /\ yil >= PILOT_BASLANGIC
  /\ op.cap = 0
  /\ ToplamEmisyonHesapla(tesis) > 0
  /\ \A i \in Tesisler : <<"tesis", i>> \in bekleyen
  /\ op.piyasa_fiyati = 0
  /\ karbon_fiyati = 0
  /\ ~op.hata

(***************************************************************************)
(* C19. The cumulative auction revenue op.toplam_gelir is 0 in every state *)
(* whose year is before TAM_UYGULAMA, never decreases, and every operator  *)
(* step taken in a year >= TAM_UYGULAMA that sets a positive price adds    *)
(* exactly cap * 0.3 * price to it, with the cap and the price that this   *)
(* same step has set; no other step changes it.                            *)
(***************************************************************************)
C19_AcikArtirmaGeliri ==
  /\ op.toplam_gelir = 0
  /\ [][/\ yil' < TAM_UYGULAMA => op'.toplam_gelir = 0
        /\ op'.toplam_gelir >= op.toplam_gelir
        /\ (OpAdimladi /\ yil >= TAM_UYGULAMA /\ op'.piyasa_fiyati > 0)
             => /\ op'.toplam_gelir
                     = op.toplam_gelir + ((op'.cap * 3) \div 10) * op'.piyasa_fiyati
                /\ op'.toplam_gelir > op.toplam_gelir
        /\ ~(OpAdimladi /\ yil >= TAM_UYGULAMA /\ op'.piyasa_fiyati > 0)
             => op'.toplam_gelir = op.toplam_gelir]_vars

\* the second accrual: in the year after TAM_UYGULAMA the operator has
\* stepped at a positive price and the revenue exceeds this step's share
C19_Tanik ==
  /\ pc = "ajanlar"
  /\ OpAjan \notin bekleyen
  /\ yil = TAM_UYGULAMA + 1
  /\ op.piyasa_fiyati > TABAN_FIYAT
  /\ op.cap < param.senaryo.baslangic_cap
  /\ op.toplam_gelir > ((op.cap * 3) \div 10) * op.piyasa_fiyati

(***************************************************************************)
(* C20 as stated.  Every IhracatciAjani has cbam_maliyeti >= 0 and         *)
(* rekabet_gucu_indeksi within [0.3, 1.0] in every state; after a step of  *)
(* an eligible exporter the cost equals emission * max(0, border price -   *)
(* domestic price), the emission being the one the facility then has, so   *)
(* that it is 0 when the domestic price is at least the border price, and  *)
(* the index is then 1.0.                                                  *)
(***************************************************************************)
C20_SkdmSonEmisyon ==
  /\ \A i \in Tesisler :
       tesis[i].cbam_maliyeti >= 0
       /\ tesis[i].rekabet_gucu_indeksi \in REKABET_TABAN..REKABET_TAM
  /\ [][\A i \in Tesisler :
          /\ tesis'[i].cbam_maliyeti >= 0
          /\ tesis'[i].rekabet_gucu_indeksi \in REKABET_TABAN..REKABET_TAM
          /\ (TesisAdimladi(i) /\ SkdmUygun(i))
               => /\ tesis'[i].cbam_maliyeti
                       = tesis'[i].emisyon
                           * Max(0, param.senaryo.ab_skdm_fiyat - karbon_fiyati)
                  /\ karbon_fiyati >= param.senaryo.ab_skdm_fiyat
                       => /\ tesis'[i].cbam_maliyeti = 0
                          /\ tesis'[i].rekabet_gucu_indeksi = REKABET_TAM]_vars

(***************************************************************************)
(* C20, amended.  The same, with the emission the facility has when its    *)
(* step begins: the cost is computed before the base-class step, which may *)
(* complete an investment and lower the emission.                          *)
(***************************************************************************)
C20_SkdmMaliyeti ==
  /\ \A i \in Tesisler :
       tesis[i].cbam_maliyeti >= 0
       /\ tesis[i].rekabet_gucu_indeksi \in REKABET_TABAN..REKABET_TAM
  /\ [][\A i \in Tesisler :
          /\ tesis'[i].cbam_maliyeti >= 0
          /\ tesis'[i].rekabet_gucu_indeksi \in REKABET_TABAN..REKABET_TAM
          /\ (TesisAdimladi(i) /\ SkdmUygun(i))
               => /\ tesis'[i].cbam_maliyeti
                       = tesis[i].emisyon
                           * Max(0, param.senaryo.ab_skdm_fiyat - karbon_fiyati)
                  /\ karbon_fiyati >= param.senaryo.ab_skdm_fiyat
                       => /\ tesis'[i].cbam_maliyeti = 0
                          /\ tesis'[i].rekabet_gucu_indeksi = REKABET_TAM]_vars

\* an eligible exporter that has paid a border cost in an earlier year has
\* stepped while the domestic price is above a positive border price: its
\* cost is back to 0 and its index to 1.0
C20_Tanik ==
  \E i \in Tesisler :
    /\ pc = "ajanlar"
    /\ SkdmUygun(i)
    /\ TesisAjan(i) \notin bekleyen
    /\ OpAjan \in bekleyen
    /\ param.senaryo.ab_skdm_fiyat > 0
    /\ karbon_fiyati >= param.senaryo.ab_skdm_fiyat
    /\ tesis[i].emisyon > 0
    /\ tesis[i].emisyon < tesis[i].baslangic_emisyon
    /\ tesis[i].cbam_maliyeti = 0
    /\ tesis[i].rekabet_gucu_indeksi = REKABET_TAM

(***************************************************************************)
(* C21. MRVAjani audits only facilities that are not Kapali: a Kapali      *)
(* facility's ceza_durumu and ceza_miktari never change; the counter       *)
(* uyumsuz_tesis_sayisi is reset by every MRV step (after the step it      *)
(* counts at most the audits of that step) and never exceeds the number of *)
(* facilities that are not Kapali; toplam_denetim and toplam_ceza never    *)
(* decrease.                                                               *)
(***************************************************************************)
C21_MrvDenetimi ==
  /\ mrv.uyumsuz_tesis_sayisi = 0
  /\ [][/\ \A i \in Tesisler :
             tesis[i].durum = "Kapali"
               => /\ tesis'[i].ceza_durumu = tesis[i].ceza_durumu
                  /\ tesis'[i].ceza_miktari = tesis[i].ceza_miktari
        /\ MrvAdimladi
             => /\ mrv'.uyumsuz_tesis_sayisi
                     <= mrv'.toplam_denetim - mrv.toplam_denetim
                /\ mrv'.toplam_denetim - mrv.toplam_denetim
                     <= Cardinality({i \in Tesisler : tesis[i].durum # "Kapali"})
        /\ ~MrvAdimladi => mrv' = mrv
        /\ mrv'.uyumsuz_tesis_sayisi
             <= Cardinality({i \in Tesisler : tesis'[i].durum # "Kapali"})
        /\ mrv'.toplam_denetim >= mrv.toplam_denetim
        /\ mrv'.toplam_ceza >= mrv.toplam_ceza]_vars

\* the MRV agent has stepped past a Kapali facility and has found another
\* facility non-compliant
C21_Tanik ==
  \E i, j \in Tesisler :
    /\ pc = "ajanlar"
    /\ MrvAjan \notin bekleyen
    /\ tesis[i].durum = "Kapali"
    /\ ~tesis[i].ceza_durumu
    /\ tesis[j].durum # "Kapali"
    /\ tesis[j].ceza_durumu
    /\ tesis[j].ceza_miktari > 0
    /\ mrv.uyumsuz_tesis_sayisi = 1
    /\ mrv.toplam_denetim = 1
    /\ mrv.toplam_ceza = tesis[j].ceza_miktari

(***************************************************************************)
(* C22. In every state model.yenilenebilir_kapasite equals the sum of the  *)
(* developers' toplam_kapasite, and each developer's toplam_kapasite       *)
(* equals the sum of the capacities in its projeler log; the three only    *)
(* grow and the log is append-only.                                        *)
(***************************************************************************)
C22_KapasiteToplami ==
  /\ yenilenebilir_kapasite = KapasiteTopla(gelistirici, Len(gelistirici))
  /\ \A j \in Gelistiriciler :
       gelistirici[j].toplam_kapasite
         = ProjeKapasiteTopla(gelistirici[j].projeler, Len(gelistirici[j].projeler))
  /\ [][/\ yenilenebilir_kapasite' = KapasiteTopla(gelistirici', Len(gelistirici'))
        /\ yenilenebilir_kapasite' >= yenilenebilir_kapasite
        /\ \A j \in Gelistiriciler :
             /\ gelistirici'[j].toplam_kapasite
                  = ProjeKapasiteTopla(gelistirici'[j].projeler,
                                       Len(gelistirici'[j].projeler))
             /\ gelistirici'[j].toplam_kapasite >= gelistirici[j].toplam_kapasite
             /\ LogEklendi(gelistirici[j].projeler, gelistirici'[j].projeler)]_vars

\* two developers have committed different projects: one a GES, the other
\* two GES and a RES
C22_Tanik ==
  /\ Len(gelistirici) = 2
  /\ gelistirici[1].toplam_kapasite = 10
  /\ Len(gelistirici[1].projeler) = 1
  /\ gelistirici[2].toplam_kapasite = 40
  /\ Len(gelistirici[2].projeler) = 3
  /\ yenilenebilir_kapasite = 50

(***************************************************************************)
(* C23. A developer's sermaye is never negative, also when both archetypes *)
(* are committed in one step: every commitment is made only when the       *)
(* capital left at that moment covers the archetype's total cost, and the  *)
(* capital never increases.                                                *)
(***************************************************************************)
C23_SermayeEksiOlmaz ==
  /\ \A j \in Gelistiriciler : gelistirici[j].sermaye >= 0
  /\ [][\A j \in Gelistiriciler :
          /\ gelistirici'[j].sermaye >= 0
          /\ gelistirici'[j].sermaye <= gelistirici[j].sermaye
          /\ gelistirici'[j].sermaye
               = SiraylaOde(gelistirici[j].sermaye, gelistirici'[j].projeler,
                            Len(gelistirici[j].projeler) + 1)]_vars

\* a developer has committed a GES and a RES in one step and has capital
\* left that covers neither a RES nor two more GES
C23_Tanik ==
  \E j \in Gelistiriciler :
    /\ pc = "ajanlar"
    /\ GelistiriciAjan(j) \notin bekleyen
    /\ yil = BASLANGIC_YIL
    /\ Len(gelistirici[j].projeler) = 2
    /\ gelistirici[j].projeler[1].tip = "GES"
    /\ gelistirici[j].projeler[2].tip = "RES"
    /\ gelistirici[j].sermaye >= YatirimTutari("GES")
    /\ gelistirici[j].sermaye < YatirimTutari("RES")

(***************************************************************************)
(* C24. The population is fixed for the whole run: in every state the      *)
(* numbers of facilities in Aktif, Donusum, Temiz and Kapali add up to the *)
(* number of facilities created by __init__, and the exporter count and    *)
(* the household count are the ones created by __init__.                   *)
(***************************************************************************)
C24_SabitNufus ==
  /\ TesisSayisiDurum(tesis, "Aktif") + TesisSayisiDurum(tesis, "Donusum")
       + TesisSayisiDurum(tesis, "Temiz") + TesisSayisiDurum(tesis, "Kapali")
       = TesisSayisi(param.nufus)
  /\ IhracatciSayisi(tesis) = param.nufus.ihracatci
  /\ HanehalkiSayisi(hane) = param.nufus.hanehalki

\* a row is about to be collected while the facilities are spread over
\* several statuses: one Kapali, one not
C24_Tanik ==
  /\ pc = "hazir"
  /\ yil > TAM_UYGULAMA
  /\ TesisSayisi(param.nufus) = 2
  /\ TesisSayisiDurum(tesis, "Kapali") = 1
  /\ TesisSayisiDurum(tesis, "Aktif") = 0
  /\ TesisSayisiDurum(tesis, "Donusum") + TesisSayisiDurum(tesis, "Temiz") = 1

(***************************************************************************)
(* C25. A run of n ticks produces exactly n rows, row k (k = 0..n-1)       *)
(* carrying year 2025 + k.  Each row is a snapshot taken before the tick's *)
(* agents step: the price, the cap and the total emission of the row for   *)
(* year Y are those the previous tick has left, no agent step changes a    *)
(* row, and nothing is collected after the last tick.                      *)
(***************************************************************************)
C25_SatirlarTikBasinda ==
  /\ kayit.satir_sayisi = 0
  /\ [][/\ TikBasladi
             => /\ kayit'.satir_sayisi = kayit.satir_sayisi + 1
                /\ kayit'.yil = BASLANGIC_YIL + kayit.satir_sayisi
                /\ kayit'.yil = yil
                /\ kayit'.karbon_fiyati = karbon_fiyati
                /\ kayit'.cap = op.cap
                /\ kayit'.toplam_emisyon = ToplamEmisyon(tesis, hane)
        /\ ~TikBasladi => kayit' = kayit
        /\ pc' = "hazir" => kayit'.satir_sayisi = yil' - BASLANGIC_YIL
        /\ pc' = "ajanlar" => kayit'.satir_sayisi = yil' - BASLANGIC_YIL + 1
        /\ kayit'.satir_sayisi <= YIL_SAYISI]_vars

\* the run is over: eleven rows, the last one for 2035, and the cap and the
\* price the last tick has set are in no row
C25_Tanik ==
  /\ pc = "hazir"
  /\ yil = BASLANGIC_YIL + YIL_SAYISI
  /\ kayit.satir_sayisi = YIL_SAYISI
  /\ kayit.yil = BASLANGIC_YIL + YIL_SAYISI - 1
  /\ op.cap < kayit.cap
  /\ karbon_fiyati > kayit.karbon_fiyati

(***************************************************************************)
(* C26 as stated.  Every penalty flag the MRV agent sets is later cleared: *)
(* in a run with enough ticks left, a facility that is not Kapali and      *)
(* carries a flag eventually carries none.                                 *)
(***************************************************************************)
C26_HerCezaSilinir ==
  \A i \in TesisNolari : CezaliVeSureVar(i) ~> CezaSilindi(i)

(***************************************************************************)
(* C26, amended.  A penalty flag is cleared only by the step of the        *)
(* facility that completes its investment.  The flag of a facility whose   *)
(* investment is running, or that is Aktif and decides to invest at its    *)
(* next step (Vergi class, forced by the flag; Tesvik class with a         *)
(* sufficient incentive), is cleared by that completion when enough ticks  *)
(* are left; the flag of a Temiz facility, and of an Aktif Tesvik facility *)
(* whose incentive is insufficient, is never cleared.                      *)
(***************************************************************************)
C26_CezaTamamlanincaSilinir ==
  /\ [][\A i \in Tesisler :
          /\ (tesis[i].ceza_durumu /\ ~tesis'[i].ceza_durumu)
               => /\ TesisAdimladi(i)
                  /\ tesis[i].durum = "Donusum"
                  /\ tesis'[i].durum = "Temiz"
          /\ ( /\ tesis[i].ceza_durumu
               /\ \/ tesis[i].durum = "Temiz"
                  \/ /\ tesis[i].durum = "Aktif"
                     /\ Profil(i).duyarlilik = "Tesvik"
                     /\ ~TesvikYeterli(Profil(i), param.senaryo.tesvik_miktari) )
               => /\ tesis'[i].ceza_durumu
                  /\ tesis'[i].durum = tesis[i].durum]_vars
  /\ \A i \in TesisNolari : CezaliYatirimYolunda(i) ~> CezaSilindi(i)

\* the flag of a facility has been cleared: it is Temiz, carries no flag
\* and still the penalty amount of the audit
C26_Tanik ==
  \E i \in Tesisler :
    /\ tesis[i].durum = "Temiz"
    /\ ~tesis[i].ceza_durumu
    /\ tesis[i].ceza_miktari > 0
    /\ mrv.toplam_ceza = tesis[i].ceza_miktari

(***************************************************************************)
(* C27 as stated.  The CBAM_Toplam_Maliyet column is cumulative: its value *)
(* never decreases from one tick's row to the next.                        *)
(***************************************************************************)
C27_SkdmKumulatif ==
  [][TikBasladi => kayit'.cbam_toplam_maliyet >= kayit.cbam_toplam_maliyet]_vars

(***************************************************************************)
(* C27, amended.  The CBAM_Toplam_Maliyet column of a row is the sum of    *)
(* the costs the IhracatciAjani instances carry when the row is collected, *)
(* each one the yearly cost its latest step has computed: 0 in the first   *)
(* row, never negative, at most the initial emissions at the border price, *)
(* and not cumulative.                                                     *)
(***************************************************************************)
C27_SkdmAnlik ==
  [][TikBasladi
       => /\ kayit'.cbam_toplam_maliyet = CbamToplamMaliyet(tesis)
          /\ kayit'.cbam_toplam_maliyet = CbamToplamMaliyet(tesis')
          /\ kayit.satir_sayisi = 0 => kayit'.cbam_toplam_maliyet = 0
          /\ kayit'.cbam_toplam_maliyet >= 0
          /\ \A i \in Tesisler :
               (IhracatciSayisi(tesis) = 1 /\ tesis[i].ajan_tipi = "IhracatciTesis")
                 => /\ kayit'.cbam_toplam_maliyet = tesis[i].cbam_maliyeti
                    /\ kayit'.cbam_toplam_maliyet
                         <= tesis[i].baslangic_emisyon * param.senaryo.ab_skdm_fiyat]_vars

\* a row has been collected whose CBAM column is positive and below the
\* value of the 2026 row (the initial emission at the border price)
C27_Tanik ==
  \E i \in Tesisler :
    /\ pc = "ajanlar"
    /\ bekleyen = TumAjanlar(Len(tesis), Len(hane), Len(gelistirici))
    /\ tesis[i].ajan_tipi = "IhracatciTesis"
    /\ kayit.satir_sayisi > 2
    /\ kayit.cbam_toplam_maliyet > 0
    /\ kayit.cbam_toplam_maliyet
         < tesis[i].baslangic_emisyon * param.senaryo.ab_skdm_fiyat

(***************************************************************************)
(* C28. With the shipped catalog SEKTOR_PROFILLERI (every Vergi sector,    *)
(* and the Sanayi profile used for unknown sectors, has a measure with a   *)
(* negative MAC) no facility is ever Kapali: where the cost of the net     *)
(* uncovered emission is positive the effective price is positive, the     *)
(* negative-MAC measure is eligible with a positive NPV, and the facility  *)
(* decides to invest (a Tesvik facility invests or waits).  The first      *)
(* conjunct states it of the decision for emission draws of 0.7, 1.0 and   *)
(* 1.3 and every uncovered share; the others of every run.                 *)
(***************************************************************************)
C28_KapaliUlasilmaz ==
  /\ \A sektor \in DOMAIN SEKTOR_PROFILLERI, carpan \in {70, 100, 130},
        pay \in {1, 30, 100}, fiyat \in Fiyatlar \ {0}, tesvik \in {0, 50000} :
       LET profil == SEKTOR_PROFILLERI[sektor]
           t0 == YeniTesis(SEKTOR_PROFILLERI, sektor, "Tesis", carpan, FALSE)
           t == [t0 EXCEPT !.net_emisyon = (t0.emisyon * pay) \div 100]
           karar == KararVer(t, profil, fiyat, tesvik).karar
       IN  /\ profil.duyarlilik = "Vergi"
                => \E k \in 1..Len(profil.mac_onlemler) :
                     profil.mac_onlemler[k].mac < 0
           /\ t.net_emisyon * fiyat > 0
           /\ karar # "kapat"
           /\ profil.duyarlilik = "Vergi" => karar = "yatirim"
  /\ param.katalog = "SEKTOR_PROFILLERI"
       => \A i \in Tesisler : tesis[i].durum # "Kapali"
  /\ [][param.katalog = "SEKTOR_PROFILLERI"
         => \A i \in Tesisler :
              /\ tesis'[i].durum # "Kapali"
              /\ ( /\ TesisAdimladi(i)
                   /\ tesis[i].durum = "Aktif"
                   /\ tesis'[i].net_emisyon * EfektifFiyatOf(i) > 0 )
                   => tesis'[i].durum \in {"Aktif", "Donusum"}]_vars

\* under the shipped catalog a facility has taken its step in a year of
\* full implementation with a positive cost of its uncovered emission, at a
\* price above the floor
C28_Tanik ==
  \E i \in Tesisler :
    /\ param.katalog = "SEKTOR_PROFILLERI"
    /\ pc = "ajanlar"
    /\ TesisAjan(i) \notin bekleyen
    /\ OpAjan \in bekleyen
    /\ yil >= TAM_UYGULAMA
    /\ EfektifFiyatOf(i) > TABAN_FIYAT
    /\ tesis[i].net_emisyon * EfektifFiyatOf(i) > 0
    /\ tesis[i].durum # "Kapali"

(***************************************************************************)
(* C29, as claimed.  While yil is before PILOT_BASLANGIC every facility    *)
(* is Aktif: no investment starts and no facility closes.                  *)
(***************************************************************************)
C29_PilotOncesiAktif ==
  yil < PILOT_BASLANGIC => \A i \in Tesisler : tesis[i].durum = "Aktif"

\* _karar_ver, the three ways to "yatirim" that do not need the scheme:
\* a sufficient incentive (Tesvik), the penalty flag, a positive effective
\* price (the border price of a covered exporter)
PilotOncesiYatirimNedeni(i) ==
  IF Profil(i).duyarlilik = "Tesvik"
  THEN TesvikYeterli(Profil(i), param.senaryo.tesvik_miktari)
  ELSE tesis[i].ceza_durumu \/ EfektifFiyatOf(i) > 0

(***************************************************************************)
(* C29, amended.  While yil is before PILOT_BASLANGIC the carbon price is  *)
(* 0 and no facility closes, under every agent order and audit outcome.    *)
(* A facility leaves Aktif only in its own step, for Donusum, and only     *)
(* when it is a Tesvik facility with a sufficient incentive, or a Vergi    *)
(* facility that carries the penalty flag or has a positive effective      *)
(* price (a covered exporter under a positive border price); every other   *)
(* facility stays Aktif.                                                   *)
(***************************************************************************)
C29_PilotOncesiKapanmaz ==
  /\ [](yil < PILOT_BASLANGIC
         => /\ karbon_fiyati = 0
            /\ \A i \in Tesisler : tesis[i].durum \in {"Aktif", "Donusum"})
  /\ [][yil < PILOT_BASLANGIC
         => \A i \in Tesisler :
              /\ tesis'[i].durum \in {"Aktif", "Donusum"}
              /\ tesis[i].durum = "Aktif" /\ tesis'[i].durum # "Aktif"
                   => TesisAdimladi(i) /\ PilotOncesiYatirimNedeni(i)]_vars

\* before the pilot year the auditor has flagged a facility and all
\* facilities have stepped: one has started an investment, another, a Vergi
\* facility without a flag and at price 0, is still Aktif
C29_Tanik ==
  \E i, j \in Tesisler :
    /\ yil < PILOT_BASLANGIC
    /\ pc = "ajanlar"
    /\ MrvAjan \notin bekleyen
    /\ \A k \in Tesisler : TesisAjan(k) \notin bekleyen
    /\ tesis[i].durum = "Donusum"
    /\ Profil(j).duyarlilik = "Vergi"
    /\ ~tesis[j].ceza_durumu
    /\ EfektifFiyatOf(j) = 0
    /\ tesis[j].durum = "Aktif"

(***************************************************************************)
(* C30. In every state with yil before TAM_UYGULAMA every facility has     *)
(* net_emisyon = 0 and none is Kapali: before the pilot net_emisyon is     *)
(* forced to 0, in the pilot years the free allocation is the whole of     *)
(* baslangic_emisyon and emisyon never exceeds baslangic_emisyon, which    *)
(* holds in every state.  A facility that steps in a pilot year is         *)
(* allocated exactly baslangic_emisyon and does not close.                 *)
(***************************************************************************)
C30_TamUygulamaOncesiNetSifir ==
  /\ \A i \in Tesisler : tesis[i].emisyon <= tesis[i].baslangic_emisyon
  /\ yil < TAM_UYGULAMA
       => \A i \in Tesisler :
            tesis[i].net_emisyon = 0 /\ tesis[i].durum # "Kapali"
  /\ [][\A i \in Tesisler :
           /\ tesis'[i].emisyon <= tesis'[i].baslangic_emisyon
           /\ yil < TAM_UYGULAMA
                => /\ tesis'[i].net_emisyon = 0
                   /\ tesis'[i].durum # "Kapali"
                   /\ TesisAdimladi(i) /\ yil >= PILOT_BASLANGIC
                        => tesis'[i].ucretsiz_tahsisat
                             = tesis[i].baslangic_emisyon]_vars

\* in the last pilot year, at a positive price, a facility that has not
\* reduced its emission has stepped: its allocation is its whole initial
\* emission and nothing is left uncovered
C30_Tanik ==
  \E i \in Tesisler :
    /\ yil = TAM_UYGULAMA - 1
    /\ pc = "ajanlar"
    /\ TesisAjan(i) \notin bekleyen
    /\ karbon_fiyati > 0
    /\ tesis[i].emisyon = tesis[i].baslangic_emisyon
    /\ tesis[i].emisyon > 0
    /\ tesis[i].ucretsiz_tahsisat = tesis[i].baslangic_emisyon
    /\ tesis[i].net_emisyon = 0

\* _karar_ver, the MAC check of the loop: some measure of the profile is
\* not skipped at this price
UygunOnlemVar(profil, efektif_fiyat) ==
  \E k \in 1..Len(profil.mac_onlemler) :
    ~MacAtla(profil.mac_onlemler[k], efektif_fiyat)

(***************************************************************************)
(* C31. The NPV test never rejects an eligible measure: for every measure  *)
(* of both catalogs whose MAC is below the effective price, at every       *)
(* price from 0 to the ceiling and emission draws of 0.7, 1.0 and 1.3,     *)
(* the NPV over EKONOMIK_OMUR years at 8% is >= 0, and > 0 when the price  *)
(* is positive.  Hence the decision of a Vergi facility without a penalty  *)
(* flag is "yatirim" iff the price is positive and some measure has its    *)
(* MAC below it, and in every run an Aktif Vergi facility without a flag   *)
(* that steps becomes Donusum under exactly that condition.                *)
(***************************************************************************)
C31_NpvUygunOnlemiReddetmez ==
  /\ \A ad \in Kataloglar, sektor \in DOMAIN SEKTOR_PROFILLERI,
        carpan \in {70, 100, 130}, fiyat \in TumFiyatlar :
       LET profil == Katalog(ad)[sektor]
           t == YeniTesis(Katalog(ad), sektor, "Tesis", carpan, FALSE)
       IN  /\ \A k \in 1..Len(profil.mac_onlemler) :
                LET onlem == profil.mac_onlemler[k]
                IN  onlem.mac < fiyat
                      => /\ NPV(t.emisyon, onlem, fiyat) >= 0
                         /\ fiyat > 0 => NPV(t.emisyon, onlem, fiyat) > 0
           /\ profil.duyarlilik = "Vergi"
                => ( KararVer(t, profil, fiyat, 0).karar = "yatirim"
                       <=> fiyat > 0 /\ UygunOnlemVar(profil, fiyat) )
  /\ [][\A i \in Tesisler :
           ( /\ TesisAdimladi(i)
             /\ tesis[i].durum = "Aktif"
             /\ Profil(i).duyarlilik = "Vergi"
             /\ ~tesis[i].ceza_durumu )
             => ( tesis'[i].durum = "Donusum"
                    <=> /\ EfektifFiyatOf(i) > 0
                        /\ UygunOnlemVar(Profil(i), EfektifFiyatOf(i)) )]_vars

\* an Aktif Vergi facility without a flag has stepped at a positive price
\* below every MAC of its profile and has not invested; another one has
\* invested in the measure its NPV test selected
C31_Tanik ==
  \E i, j \in Tesisler :
    /\ pc = "ajanlar"
    /\ TesisAjan(i) \notin bekleyen
    /\ Profil(i).duyarlilik = "Vergi"
    /\ ~tesis[i].ceza_durumu
    /\ tesis[i].durum = "Aktif"
    /\ EfektifFiyatOf(i) > 0
    /\ ~UygunOnlemVar(Profil(i), EfektifFiyatOf(i))
    /\ Profil(j).duyarlilik = "Vergi"
    /\ tesis[j].durum = "Donusum"
    /\ ~tesis[j].ceza_durumu
    /\ tesis[j].yatirim_onlemi_kaydet # 0

\* emission totals and caps (kt) on both sides of emisyon = cap
OranOrnekleri == {1, 250, 299, 300, 301, 750, 1300, 3000}

(***************************************************************************)
(* C32. When the scheme is active (yil >= PILOT_BASLANGIC) and the total   *)
(* emission the operator reads is positive and at most the reduced cap,    *)
(* the price it publishes is exactly TABAN_FIYAT: the square-root branch   *)
(* is clamped up to the floor.  A published price above the floor means    *)
(* the total emission exceeded the cap.  The first conjunct states it of   *)
(* the price computation, the second of every operator step.               *)
(***************************************************************************)
C32_TabanFiyat ==
  /\ \A emisyon \in OranOrnekleri, cap \in OranOrnekleri,
        yl \in {PILOT_BASLANGIC, TAM_UYGULAMA} :
       /\ emisyon <= cap => FiyatBelirle(yl, cap, emisyon) = TABAN_FIYAT
       /\ FiyatBelirle(yl, cap, emisyon) > TABAN_FIYAT => emisyon > cap
  /\ [][OpAdimladi /\ pc' # "hata"
         => LET emisyon == ToplamEmisyonHesapla(tesis)
            IN  /\ ( /\ yil >= PILOT_BASLANGIC
                     /\ 0 < emisyon
                     /\ emisyon <= op'.cap )
                     => /\ op'.piyasa_fiyati = TABAN_FIYAT
                        /\ karbon_fiyati' = TABAN_FIYAT
                /\ karbon_fiyati' > TABAN_FIYAT
                     => yil >= PILOT_BASLANGIC /\ emisyon > op'.cap]_vars

\* the scheme is active and the operator has published the floor price for
\* a positive total emission strictly below its cap
C32_Tanik ==
  /\ yil >= PILOT_BASLANGIC
  /\ pc = "ajanlar"
  /\ OpAjan \notin bekleyen
  /\ \A i \in Tesisler : TesisAjan(i) \in bekleyen
  /\ 0 < ToplamEmisyonHesapla(tesis)
  /\ ToplamEmisyonHesapla(tesis) < op.cap
  /\ op.piyasa_fiyati = TABAN_FIYAT
  /\ karbon_fiyati = TABAN_FIYAT

\* the price the operator publishes when it is the first agent of the
\* tick: in a run without households the Toplam_Emisyon of the row
\* collected at the start of the tick is the total it then reads
IlkSiradaFiyat(cap) == FiyatBelirle(yil, cap, kayit.toplam_emisyon)

(***************************************************************************)
(* C33. The price published in a tick depends on the agent order of the    *)
(* tick.  In a run without households: when the operator steps before      *)
(* every facility it publishes IlkSiradaFiyat; when it steps later it can  *)
(* publish another price, and then a lower one, and only if a facility     *)
(* that has already stepped in the tick is Temiz or Kapali (its            *)
(* investment completed or it closed before the operator read the total).  *)
(* C33_Tanik is a state where the two orders differ.                       *)
(***************************************************************************)
C33_FiyatSirayaBagli ==
  [][OpAdimladi /\ pc' # "hata" /\ hane = << >>
       => /\ (\A i \in Tesisler : TesisAjan(i) \in bekleyen)
               => karbon_fiyati' = IlkSiradaFiyat(op'.cap)
          /\ karbon_fiyati' # IlkSiradaFiyat(op'.cap)
               => /\ karbon_fiyati' < IlkSiradaFiyat(op'.cap)
                  /\ \E i \in Tesisler :
                       /\ TesisAjan(i) \notin bekleyen
                       /\ tesis[i].durum \in {"Temiz", "Kapali"}]_vars

\* the operator has stepped after a facility whose emission fell in this
\* tick, and has published a price other than the one it publishes when
\* it steps first from the same start of the tick
C33_Tanik ==
  /\ pc = "ajanlar"
  /\ hane = << >>
  /\ OpAjan \notin bekleyen
  /\ ~op.hata
  /\ kayit.yil = yil
  /\ karbon_fiyati # IlkSiradaFiyat(op.cap)

\* the investment fields of t are those of entry k of the catalog of its
\* sector, the countdown not above the entry's duration
KatalogOnlemi(t, profil, k) ==
  /\ t.yatirim_durumu = profil.mac_onlemler[k].ad
  /\ t.emisyon_azalma_potansiyeli = profil.mac_onlemler[k].potansiyel
  /\ t.kalan_yatirim_suresi <= profil.mac_onlemler[k].sure

\* _yatirim_baslat, the else branch: the investment fields of t are those
\* of "genel_iyilestirme", which is in no catalog
GenelIyilestirme(t) ==
  /\ t.yatirim_durumu = "genel_iyilestirme"
  /\ t.emisyon_azalma_potansiyeli = GENEL_POTANSIYEL
  /\ t.kalan_yatirim_suresi <= GENEL_SURE

(***************************************************************************)
(* C34, as claimed.  A facility that is Donusum or Temiz has the name,     *)
(* the reduction fraction and (as the start of its countdown) the          *)
(* duration of an entry of the catalog of its sector, however the          *)
(* investment was decided.                                                 *)
(***************************************************************************)
C34_HepKatalogOnlemi ==
  \A i \in Tesisler :
    tesis[i].durum \in {"Donusum", "Temiz"}
      => \E k \in 1..Len(Profil(i).mac_onlemler) :
           KatalogOnlemi(tesis[i], Profil(i), k)

(***************************************************************************)
(* C34, amended.  A facility that is Donusum or Temiz has the fields of    *)
(* an entry of the catalog of its sector or those of genel_iyilestirme     *)
(* (3 years, 20%).  An investment selected by the NPV test starts with     *)
(* the selected entry and its duration.  An investment forced by the       *)
(* penalty flag or triggered by the incentive starts with the first entry  *)
(* whose MAC is below the effective price and its duration, and with       *)
(* genel_iyilestirme and 3 years when there is no such entry.              *)
(***************************************************************************)
C34_KatalogVeyaGenel ==
  /\ [](\A i \in Tesisler :
         tesis[i].durum \in {"Donusum", "Temiz"}
           => \/ \E k \in 1..Len(Profil(i).mac_onlemler) :
                   KatalogOnlemi(tesis[i], Profil(i), k)
              \/ GenelIyilestirme(tesis[i]))
  /\ [][\A i \in Tesisler :
           tesis[i].durum = "Aktif" /\ tesis'[i].durum = "Donusum"
             => LET onlemler == Profil(i).mac_onlemler
                    fiyat == EfektifFiyatOf(i)
                    zorunlu == \/ Profil(i).duyarlilik = "Tesvik"
                               \/ tesis[i].ceza_durumu
                    uygun == {k \in 1..Len(onlemler) : onlemler[k].mac < fiyat}
                IN  IF zorunlu /\ uygun = {}
                    THEN /\ GenelIyilestirme(tesis'[i])
                         /\ tesis'[i].kalan_yatirim_suresi = GENEL_SURE
                    ELSE \E k \in uygun :
                           /\ KatalogOnlemi(tesis'[i], Profil(i), k)
                           /\ tesis'[i].kalan_yatirim_suresi = onlemler[k].sure
                           /\ zorunlu => \A j \in uygun : k <= j]_vars

\* three investments are under way or done: one selected by the NPV test,
\* one forced on a flagged Vergi facility that found an entry below its
\* price, and one that found none and runs genel_iyilestirme
C34_Tanik ==
  /\ \E i \in Tesisler :
       /\ tesis[i].durum \in {"Donusum", "Temiz"}
       /\ GenelIyilestirme(tesis[i])
  /\ \E i \in Tesisler :
       /\ tesis[i].durum \in {"Donusum", "Temiz"}
       /\ tesis[i].yatirim_onlemi_kaydet # 0
       /\ KatalogOnlemi(tesis[i], Profil(i), tesis[i].yatirim_onlemi_kaydet)

\* self.emisyon *= (1 - self.emisyon_azalma_potansiyeli), applied once to
\* the initial emission
AzaltilmisEmisyon(t) ==
  (t.baslangic_emisyon * (100 - t.emisyon_azalma_potansiyeli)) \div 100

(***************************************************************************)
(* C35. baslangic_emisyon is the emission drawn at creation and never      *)
(* changes; emisyon never increases.  In every state emisyon is            *)
(* baslangic_emisyon (Aktif, Donusum), baslangic_emisyon reduced once by   *)
(* the reduction fraction of the facility's one measure (Temiz), or 0      *)
(* (Kapali); no facility starts a second investment.                       *)
(***************************************************************************)
C35_EmisyonDegerleri ==
  /\ [](\A i \in Tesisler :
         /\ \E carpan \in Carpanlar :
              tesis[i].baslangic_emisyon
                = (Profil(i).baz_emisyon * carpan) \div 100
         /\ tesis[i].g_yatirim <= 1
         /\ tesis[i].emisyon
              = CASE tesis[i].durum \in {"Aktif", "Donusum"}
                       -> tesis[i].baslangic_emisyon
                  [] tesis[i].durum = "Temiz" -> AzaltilmisEmisyon(tesis[i])
                  [] OTHER -> 0)
  /\ [][\A i \in Tesisler :
           /\ tesis'[i].baslangic_emisyon = tesis[i].baslangic_emisyon
           /\ tesis'[i].emisyon <= tesis[i].emisyon
           /\ tesis'[i].emisyon # tesis[i].emisyon => TesisAdimladi(i)]_vars

\* one facility is Temiz with its emission reduced once and strictly below
\* its initial emission, another is Kapali with emission 0
C35_Tanik ==
  \E i, j \in Tesisler :
    /\ tesis[i].durum = "Temiz"
    /\ tesis[i].emisyon = AzaltilmisEmisyon(tesis[i])
    /\ tesis[i].emisyon < tesis[i].baslangic_emisyon
    /\ tesis[i].emisyon > 0
    /\ tesis[j].durum = "Kapali"
    /\ tesis[j].emisyon = 0
    /\ tesis[j].baslangic_emisyon > 0

\* the number of PiyasaOperatoru.step calls that have returned: one per
\* tick started, less the one still due in the current tick or the one
\* that raised
TamamlananOpAdimi ==
  IF (pc = "ajanlar" /\ OpAjan \in bekleyen) \/ pc = "hata"
  THEN kayit.satir_sayisi - 1
  ELSE kayit.satir_sayisi

C37_DonusumIffSureVar ==
  \A i \in Tesisler :
    /\ tesis[i].durum \in {"Aktif", "Donusum", "Temiz", "Kapali"}
    /\ tesis[i].kalan_yatirim_suresi >= 0
    /\ tesis[i].durum = "Donusum" <=> tesis[i].kalan_yatirim_suresi > 0
    /\ tesis[i].durum = "Aktif"
         => /\ tesis[i].yatirim_durumu = "None"
            /\ tesis[i].yatirim_onlemi_kaydet = 0
            /\ tesis[i].emisyon_azalma_potansiyeli = 0

\* at the end of a tick one facility is in the last year of its investment
\* and another has completed one and keeps its measure with no time left
C37_Tanik ==
  \E i, j \in Tesisler :
    /\ pc = "ajanlar"
    /\ bekleyen = {}
    /\ tesis[i].durum = "Donusum"
    /\ tesis[i].kalan_yatirim_suresi = 1
    /\ tesis[j].durum = "Temiz"
    /\ tesis[j].kalan_yatirim_suresi = 0
    /\ tesis[j].yatirim_durumu # "None"

====
